---- MODULE Spec2Model ----
(***************************************************************************)
(* A model of the CKAN MCP server (src/mcp_ckan_server.py): the caching    *)
(* request client CKANAPIClient, the response envelope StandardResponse,   *)
(* the derived operations and the tool dispatcher handle_call_tool.        *)
(*                                                                         *)
(* Python values are tagged records, so that values of different Python    *)
(* types can be compared.  Python strings are TLA+ strings.  An evaluation *)
(* that may raise gives Ret(v) or Raise(message), the message being        *)
(* str(e) of the exception raised.                                         *)
(***************************************************************************)
EXTENDS Integers, Sequences, FiniteSets, TLC

VARIABLES
    ckan_client,  \* the module-level handle: "none" until main() sets it
    session,      \* CKANAPIClient.session: "none", "open" or "closed"
    cache,        \* CKANAPIClient.cache: cache key -> [timestamp, data]
    now,          \* time.time(), in seconds
    ops,          \* number of top-level calls made so far
    last,         \* what the most recent top-level call did and returned
    scope,        \* the scope that owns the client: "none" before it is
                  \* entered, "main" (the server), "client" (the explorer's or
                  \* the demo's async with block) while it runs, "left" after
    inflight      \* the invocations of handle_call_tool that share the client,
                  \* each with its position: "idle" before it is called,
                  \* "waiting" while suspended on its network call, "returned"

vars == <<ckan_client, session, cache, now, ops, last, scope, inflight>>

\* ------------------------------------------------------------------ bounds
MaxTime == 600
MaxOps == 1
MaxRequests == 4
MaxInvocations == 2

\* ----------------------------------------------------------- Python values
None == [t |-> "null"]
JStr(s) == [t |-> "str", s |-> s]
JNum(n) == [t |-> "num", n |-> n]
JBool(b) == [t |-> "bool", b |-> b]
JList(l) == [t |-> "list", l |-> l]
JObj(o) == [t |-> "obj", o |-> o]

RECURSIVE GCD(_, _)
GCD(a, b) == IF b = 0 THEN a ELSE GCD(b, a % b)

\* a float that is the quotient num/den of two naturals, in lowest terms
JFloat(num, den) ==
    LET g == GCD(num, den)
    IN  [t |-> "float", num |-> num \div g, den |-> den \div g]
EmptyDict == JObj(<<>>)
EmptyList == JList(<<>>)

\* bool(v): None, False, 0, "", [] and {} are falsy
Truthy(v) ==
    CASE v.t = "null" -> FALSE
      [] v.t = "str" -> v.s # ""
      [] v.t = "num" -> v.n # 0
      [] v.t = "float" -> v.num # 0
      [] v.t = "bool" -> v.b
      [] v.t = "list" -> Len(v.l) > 0
      [] v.t = "obj" -> DOMAIN v.o # {}

\* type(v).__name__
TypeName(v) ==
    CASE v.t = "null" -> "NoneType"
      [] v.t = "str" -> "str"
      [] v.t = "num" -> "int"
      [] v.t = "float" -> "float"
      [] v.t = "bool" -> "bool"
      [] v.t = "list" -> "list"
      [] v.t = "obj" -> "dict"

Ret(v) == [ok |-> TRUE, val |-> v]
Raise(msg) == [ok |-> FALSE, exc |-> msg]

\* The statements after an expression: they run on its value, K, unless the
\* expression raised, and then the exception leaves the block.
Then(r, K(_)) == IF r.ok THEN K(r.val) ELSE r

\* str(AttributeError) for v.attr on a value without that attribute
AttributeError(v, attr) ==
    "'" \o TypeName(v) \o "' object has no attribute '" \o attr \o "'"

\* The keys of the model's dictionaries, in the order a document lists them
\* (sorted, so that it is also the order of json.dumps(sort_keys=True)).
KeyOrder ==
    <<"__type", "dataset_id", "fq", "id", "limit", "message", "name", "organization",
      "q", "rows", "tags", "vocabulary_id">>

RECURSIVE JoinSeq(_, _)
JoinSeq(parts, sep) ==
    IF Len(parts) = 0 THEN ""
    ELSE IF Len(parts) = 1 THEN parts[1]
    ELSE parts[1] \o sep \o JoinSeq(Tail(parts), sep)

\* repr(v) and str(v); they differ on strings only
RECURSIVE PyRepr(_)
PyRepr(v) ==
    CASE v.t = "null" -> "None"
      [] v.t = "str" -> "'" \o v.s \o "'"
      [] v.t = "num" -> ToString(v.n)
      [] v.t = "bool" -> IF v.b THEN "True" ELSE "False"
      [] v.t = "list" ->
           "[" \o JoinSeq([i \in 1..Len(v.l) |-> PyRepr(v.l[i])], ", ") \o "]"
      [] v.t = "obj" ->
           LET ks == SelectSeq(KeyOrder, LAMBDA k : k \in DOMAIN v.o)
           IN "{" \o JoinSeq([i \in 1..Len(ks) |->
                      "'" \o ks[i] \o "': " \o PyRepr(v.o[ks[i]])], ", ") \o "}"

PyStr(v) == IF v.t = "str" THEN v.s ELSE PyRepr(v)

\* json.dumps(v, sort_keys=True)
RECURSIVE json_dumps(_)
json_dumps(v) ==
    CASE v.t = "null" -> "null"
      [] v.t = "str" -> "\"" \o v.s \o "\""
      [] v.t = "num" -> ToString(v.n)
      [] v.t = "bool" -> IF v.b THEN "true" ELSE "false"
      [] v.t = "list" ->
           "[" \o JoinSeq([i \in 1..Len(v.l) |-> json_dumps(v.l[i])], ", ") \o "]"
      [] v.t = "obj" ->
           LET ks == SelectSeq(KeyOrder, LAMBDA k : k \in DOMAIN v.o)
           IN "{" \o JoinSeq([i \in 1..Len(ks) |->
                      "\"" \o ks[i] \o "\": " \o json_dumps(v.o[ks[i]])], ", ") \o "}"

\* d.get(k, default)
DictGet(d, k, default) ==
    IF d.t # "obj" THEN Raise(AttributeError(d, "get"))
    ELSE Ret(IF k \in DOMAIN d.o THEN d.o[k] ELSE default)

\* ------------------------------------------------------------ CKANAPIClient
cache_ttl == 300

\* hashlib.md5(s).hexdigest(), taken to be injective: the digest of a string
\* is modelled by the string itself
md5_hexdigest(s) == s

_get_cache_key(method, endpoint, data) ==
    md5_hexdigest(method \o ":" \o endpoint \o ":"
                  \o (IF Truthy(data) THEN json_dumps(data) ELSE ""))

\* self.cache.get(cache_key)
CacheGet(c, key) == IF key \in DOMAIN c THEN c[key] ELSE None

\* _is_cache_valid were no entry ever valid: C1 does not hold of it
NeverValid(cache_entry, time) == FALSE

\* _is_cache_valid were the comparison <=, an entry still valid at the age
\* cache_ttl: C2 does not hold of it
ValidAtTtl(cache_entry, time) ==
    IF cache_entry = None THEN FALSE
    ELSE (time - cache_entry.timestamp) <= cache_ttl

_is_cache_valid(cache_entry, time) ==
    IF cache_entry = None THEN FALSE
    ELSE (time - cache_entry.timestamp) < cache_ttl

\* What one network call meets: a decoded JSON body, an aiohttp.ClientError
\* or any other exception of the transport (asyncio.TimeoutError, whose
\* str() is empty, or a body that is not JSON).
JsonResponse(body) == [k |-> "json", body |-> body]
ClientError(text) == [k |-> "client_error", text |-> text]
OtherError(text) == [k |-> "other_error", text |-> text]

\* The state an operation threads through its requests: the cache, the
\* responses the network has yet to give (rest), the network calls issued so
\* far with the response each met (net), the session and the clock.
Ctx(c, resps) ==
    [cache |-> c, rest |-> resps, net |-> <<>>, starved |-> FALSE]

Request(method, endpoint, data) ==
    [method |-> method, endpoint |-> endpoint, data |-> data]

\* the try block were it to store every successful result, whatever the
\* method and use_cache: C20 does not hold of it
OnResponseStoring(ctx, method, endpoint, data, use_cache, resp) ==
    LET cache_key == _get_cache_key(method, endpoint, data)
        seen == [ctx EXCEPT !.rest = Tail(ctx.rest),
                            !.net = Append(ctx.net,
                                [req |-> Request(method, endpoint, data),
                                 resp |-> resp])]
    IN  CASE resp.k = "client_error" ->
               [out |-> Raise("HTTP Error: " \o resp.text), ctx |-> seen]
          [] resp.k = "other_error" ->
               [out |-> Raise("Request failed: " \o resp.text), ctx |-> seen]
          [] resp.k = "json" ->
               LET success == DictGet(resp.body, "success", JBool(FALSE))
               IN  IF ~success.ok
                   THEN [out |-> Raise("Request failed: " \o success.exc),
                         ctx |-> seen]
                   ELSE IF ~Truthy(success.val)
                   THEN [out |-> Raise("Request failed: CKAN API Error: "
                              \o PyStr(DictGet(resp.body, "error", EmptyDict).val)),
                         ctx |-> seen]
                   ELSE LET result_data ==
                                DictGet(resp.body, "result", EmptyDict).val
                        IN  [out |-> Ret(result_data),
                             ctx |-> IF TRUE
                                     THEN [seen EXCEPT !.cache =
                                             (cache_key :> [timestamp |-> now,
                                                            data |-> result_data])
                                             @@ ctx.cache]
                                     ELSE seen]

\* the try block were a failed request to drop the entry of its key: C21
\* does not hold of it
OnResponseEvicting(ctx, method, endpoint, data, use_cache, resp) ==
    LET cache_key == _get_cache_key(method, endpoint, data)
        r == OnResponseStoring(ctx, method, endpoint, data, use_cache, resp)
        kept == DOMAIN ctx.cache \ {cache_key}
    IN  IF r.out.ok
        THEN IF use_cache /\ method = "GET" THEN r
             ELSE [r EXCEPT !.ctx.cache = ctx.cache]
        ELSE [r EXCEPT !.ctx.cache = [k \in kept |-> ctx.cache[k]]]

\* the try block were it to keep the entry a key already has: C23 does not
\* hold of it
OnResponseKeepingFirst(ctx, method, endpoint, data, use_cache, resp) ==
    LET cache_key == _get_cache_key(method, endpoint, data)
        r == OnResponseStoring(ctx, method, endpoint, data, use_cache, resp)
    IN  IF r.out.ok /\ use_cache /\ method = "GET"
           /\ cache_key \notin DOMAIN ctx.cache
        THEN r
        ELSE [r EXCEPT !.ctx.cache = ctx.cache]

\* the try block were a failed cacheable GET to leave an entry with a null
\* payload: C30 does not hold of it
OnResponseStoringFailure(ctx, method, endpoint, data, use_cache, resp) ==
    LET cache_key == _get_cache_key(method, endpoint, data)
        r == OnResponseStoring(ctx, method, endpoint, data, use_cache, resp)
    IN  IF ~(use_cache /\ method = "GET") THEN [r EXCEPT !.ctx.cache = ctx.cache]
        ELSE IF r.out.ok THEN r
        ELSE [r EXCEPT !.ctx.cache =
                (cache_key :> [timestamp |-> now, data |-> None]) @@ ctx.cache]

\* The body of the try block once the response has arrived (lines 112-127)
OnResponse(ctx, method, endpoint, data, use_cache, resp) ==
    LET cache_key == _get_cache_key(method, endpoint, data)
        seen == [ctx EXCEPT !.rest = Tail(ctx.rest),
                            !.net = Append(ctx.net,
                                [req |-> Request(method, endpoint, data),
                                 resp |-> resp])]
    IN  CASE resp.k = "client_error" ->
               [out |-> Raise("HTTP Error: " \o resp.text), ctx |-> seen]
          [] resp.k = "other_error" ->
               [out |-> Raise("Request failed: " \o resp.text), ctx |-> seen]
          [] resp.k = "json" ->
               LET success == DictGet(resp.body, "success", JBool(FALSE))
               IN  IF ~success.ok
                   THEN [out |-> Raise("Request failed: " \o success.exc),
                         ctx |-> seen]
                   ELSE IF ~Truthy(success.val)
                   THEN [out |-> Raise("Request failed: CKAN API Error: "
                              \o PyStr(DictGet(resp.body, "error", EmptyDict).val)),
                         ctx |-> seen]
                   ELSE LET result_data ==
                                DictGet(resp.body, "result", EmptyDict).val
                        IN  [out |-> Ret(result_data),
                             ctx |-> IF use_cache /\ method = "GET"
                                     THEN [seen EXCEPT !.cache =
                                             (cache_key :> [timestamp |-> now,
                                                            data |-> result_data])
                                             @@ ctx.cache]
                                     ELSE seen]

\* _make_request were it to issue a failed request a second time: C11 does
\* not hold of it
MakeRequestRetrying(ctx, method, endpoint, data, use_cache) ==
    LET cache_key == _get_cache_key(method, endpoint, data)
        cache_entry == CacheGet(ctx.cache, cache_key)
        Again(first) ==
            IF first.out.ok THEN first
            ELSE IF first.ctx.rest = <<>>
            THEN [out |-> Raise("no response"),
                  ctx |-> [first.ctx EXCEPT !.starved = TRUE]]
            ELSE OnResponse(first.ctx, method, endpoint, data, use_cache,
                            Head(first.ctx.rest))
    IN  IF use_cache /\ method = "GET" /\ cache_entry # None
           /\ _is_cache_valid(cache_entry, now)
        THEN [out |-> Ret(cache_entry.data), ctx |-> ctx]
        ELSE IF session # "open"
        THEN [out |-> Raise("Request failed: Session is closed"), ctx |-> ctx]
        ELSE IF ctx.rest = <<>>
        THEN [out |-> Raise("no response"),
              ctx |-> [ctx EXCEPT !.starved = TRUE]]
        ELSE Again(OnResponse(ctx, method, endpoint, data, use_cache,
                              Head(ctx.rest)))

\* _make_request were it to delete an entry it finds stale before going to
\* the network: C22 does not hold of it
MakeRequestExpiring(ctx, method, endpoint, data, use_cache) ==
    LET cache_key == _get_cache_key(method, endpoint, data)
        cache_entry == CacheGet(ctx.cache, cache_key)
        kept == DOMAIN ctx.cache \ {cache_key}
        expired == IF use_cache /\ method = "GET"
                   THEN [ctx EXCEPT !.cache = [k \in kept |-> ctx.cache[k]]]
                   ELSE ctx
    IN  IF use_cache /\ method = "GET" /\ cache_entry # None
           /\ _is_cache_valid(cache_entry, now)
        THEN [out |-> Ret(cache_entry.data), ctx |-> ctx]
        ELSE IF session # "open"
        THEN [out |-> Raise("Request failed: Session is closed"),
              ctx |-> expired]
        ELSE IF ctx.rest = <<>>
        THEN [out |-> Raise("no response"),
              ctx |-> [ctx EXCEPT !.starved = TRUE]]
        ELSE OnResponse(expired, method, endpoint, data, use_cache,
                        Head(ctx.rest))

_make_request(ctx, method, endpoint, data, use_cache) ==
    LET cache_key == _get_cache_key(method, endpoint, data)
        cache_entry == CacheGet(ctx.cache, cache_key)
    IN  IF use_cache /\ method = "GET" /\ cache_entry # None
           /\ _is_cache_valid(cache_entry, now)
        THEN [out |-> Ret(cache_entry.data), ctx |-> ctx]
        ELSE IF session = "none"
        THEN [out |-> Raise("Request failed: "
                            \o AttributeError(None, "request")),
              ctx |-> ctx]
        ELSE IF session = "closed"
        THEN [out |-> Raise("Request failed: Session is closed"), ctx |-> ctx]
        ELSE IF ctx.rest = <<>>
        THEN [out |-> Raise("no response"),
              ctx |-> [ctx EXCEPT !.starved = TRUE]]
        ELSE OnResponse(ctx, method, endpoint, data, use_cache, Head(ctx.rest))

\* ------------------------------------------------- more Python evaluation
\* v[k] for a string key k
Subscript(v, k) ==
    CASE v.t = "obj" ->
           IF k \in DOMAIN v.o THEN Ret(v.o[k]) ELSE Raise("'" \o k \o "'")
      [] v.t = "list" -> Raise("list indices must be integers or slices, not str")
      [] v.t = "str" -> Raise("string indices must be integers")
      [] OTHER -> Raise("'" \o TypeName(v) \o "' object is not subscriptable")

\* the elements a for loop over v visits
Iterate(v) ==
    CASE v.t = "list" -> Ret(v.l)
      [] v.t = "str" -> Ret([i \in 1..Len(v.s) |-> JStr(SubSeq(v.s, i, i))])
      [] v.t = "obj" ->
           LET ks == SelectSeq(KeyOrder, LAMBDA k : k \in DOMAIN v.o)
           IN  Ret([i \in 1..Len(ks) |-> JStr(ks[i])])
      [] OTHER -> Raise("'" \o TypeName(v) \o "' object is not iterable")

\* [F(x) for x in s]: the list, or the first exception an element raises
MapM(F(_), s) ==
    LET rs == [i \in 1..Len(s) |-> F(s[i])]
        bad == {i \in 1..Len(s) : ~rs[i].ok}
    IN  IF bad # {}
        THEN rs[CHOOSE i \in bad : \A j \in bad : i <= j]
        ELSE Ret([i \in 1..Len(s) |-> rs[i].val])

\* s[:n]
SliceTo(s, n) ==
    CASE n.t = "null" -> Ret(s)
      [] n.t = "num" ->
           Ret(IF n.n >= 0
               THEN SubSeq(s, 1, IF n.n < Len(s) THEN n.n ELSE Len(s))
               ELSE SubSeq(s, 1, IF Len(s) + n.n > 0 THEN Len(s) + n.n ELSE 0))
      [] n.t = "bool" -> Ret(SubSeq(s, 1, IF n.b /\ Len(s) > 0 THEN 1 ELSE 0))
      [] OTHER ->
           Raise("slice indices must be integers or None or have an __index__ method")

\* urllib.parse.quote(s): letters, digits and _.-~/ are kept, every other
\* character is percent-encoded
QuoteChar(c) ==
    CASE c = " " -> "%20"
      [] c = ":" -> "%3A"
      [] c = "*" -> "%2A"
      [] c = "," -> "%2C"
      [] c = "[" -> "%5B"
      [] c = "]" -> "%5D"
      [] c = "{" -> "%7B"
      [] c = "}" -> "%7D"
      [] c = "'" -> "%27"
      [] c = "\"" -> "%22"
      [] c = "=" -> "%3D"
      [] c = "&" -> "%26"
      [] c = "?" -> "%3F"
      [] OTHER -> c

RECURSIVE quote(_)
quote(s) ==
    IF Len(s) = 0 THEN ""
    ELSE IF Len(s) = 1 THEN QuoteChar(s)
    ELSE quote(SubSeq(s, 1, Len(s) \div 2)) \o quote(SubSeq(s, Len(s) \div 2 + 1, Len(s)))

\* str.lower()
UpperCase == "ABCDEFGHIJKLMNOPQRSTUVWXYZ"
LowerCase == "abcdefghijklmnopqrstuvwxyz"

LowerChar(c) ==
    IF \E i \in 1..Len(UpperCase) : SubSeq(UpperCase, i, i) = c
    THEN LET i == CHOOSE i \in 1..Len(UpperCase) : SubSeq(UpperCase, i, i) = c
         IN  SubSeq(LowerCase, i, i)
    ELSE c

RECURSIVE lower(_)
lower(s) ==
    IF Len(s) = 0 THEN ""
    ELSE IF Len(s) = 1 THEN LowerChar(s)
    ELSE lower(SubSeq(s, 1, Len(s) \div 2)) \o lower(SubSeq(s, Len(s) \div 2 + 1, Len(s)))

\* sub in s
Contains(sub, s) ==
    \E i \in 1..(Len(s) - Len(sub) + 1) : SubSeq(s, i, i + Len(sub) - 1) = sub

\* str.upper()
UpperChar(c) ==
    IF \E i \in 1..Len(LowerCase) : SubSeq(LowerCase, i, i) = c
    THEN LET i == CHOOSE i \in 1..Len(LowerCase) : SubSeq(LowerCase, i, i) = c
         IN  SubSeq(UpperCase, i, i)
    ELSE c

RECURSIVE upper(_)
upper(s) ==
    IF Len(s) = 0 THEN ""
    ELSE IF Len(s) = 1 THEN UpperChar(s)
    ELSE upper(SubSeq(s, 1, Len(s) \div 2)) \o upper(SubSeq(s, Len(s) \div 2 + 1, Len(s)))

\* k in v, for a string k
PyIn(k, v) ==
    CASE v.t = "list" -> Ret(\E i \in 1..Len(v.l) : v.l[i] = JStr(k))
      [] v.t = "str" -> Ret(Contains(k, v.s))
      [] v.t = "obj" -> Ret(k \in DOMAIN v.o)
      [] OTHER -> Raise("argument of type '" \o TypeName(v) \o "' is not iterable")

\* len(v)
PyLen(v) ==
    CASE v.t = "list" -> Ret(Len(v.l))
      [] v.t = "str" -> Ret(Len(v.s))
      [] v.t = "obj" -> Ret(Cardinality(DOMAIN v.o))
      [] OTHER -> Raise("object of type '" \o TypeName(v) \o "' has no len()")

\* v[i] for an integer i >= 0
Index(v, i) ==
    CASE v.t = "list" ->
           IF i < Len(v.l) THEN Ret(v.l[i + 1]) ELSE Raise("list index out of range")
      [] v.t = "str" ->
           IF i < Len(v.s) THEN Ret(JStr(SubSeq(v.s, i + 1, i + 1)))
           ELSE Raise("string index out of range")
      [] v.t = "obj" -> Raise(ToString(i))
      [] OTHER -> Raise("'" \o TypeName(v) \o "' object is not subscriptable")

\* an operation's outcome, with the state it leaves
Out(out, ctx) == [out |-> out, ctx |-> ctx]

\* -------------------------------------------------------- derived operations
\* The statements after an awaited request or operation: they run on its
\* result and the state it left, unless it raised.
AndThen(r, K(_, _)) == IF r.out.ok THEN K(r.out.val, r.ctx) ELSE r

\* [ds for ds in results.get("results", []) if ds["id"] != dataset_id]
OtherThan(results, dataset_id) ==
    Then(DictGet(results, "results", EmptyList), LAMBDA got :
    Then(Iterate(got), LAMBDA items :
    Then(MapM(LAMBDA ds : Subscript(ds, "id"), items), LAMBDA ids :
         Ret(SelectSeq(items, LAMBDA ds : Subscript(ds, "id").val # dataset_id)))))

\* the search of get_related_datasets and the filtering of its results
RelatedSearch(ctx, query_string, dataset_id) ==
    AndThen(_make_request(ctx, "GET", "package_search?" \o query_string, None, TRUE),
            LAMBDA results, c : Out(OtherThan(results, dataset_id), c))

\* what get_related_datasets computes before the final slice
RelatedBy(ctx, source_dataset, dataset_id, relation_type, max_results) ==
    CASE relation_type = JStr("tags") ->
           LET tags ==
                 Then(DictGet(source_dataset, "tags", EmptyList), LAMBDA got :
                 Then(Iterate(got), LAMBDA items :
                      MapM(LAMBDA tag : Subscript(tag, "name"), items)))
               Search(names) ==
                 IF Len(names) = 0 THEN Out(Ret(<<>>), ctx)
                 ELSE RelatedSearch(ctx,
                        "q=*:*&fq="
                          \o quote(JoinSeq([i \in 1..Len(names) |->
                                              "tags:" \o PyStr(names[i])], " OR "))
                          \o "&rows=" \o PyStr(max_results),
                        dataset_id)
               Found(r) == IF r.ok THEN Search(r.val) ELSE Out(r, ctx)
           IN  Found(tags)
      [] relation_type = JStr("organization") ->
           LET org ==
                 Then(DictGet(source_dataset, "organization", EmptyDict),
                      LAMBDA organization : DictGet(organization, "id", None))
               Search(org_id) ==
                 IF ~Truthy(org_id) THEN Out(Ret(<<>>), ctx)
                 ELSE RelatedSearch(ctx, "q=organization:" \o PyStr(org_id)
                                           \o "&rows=" \o PyStr(max_results),
                                    dataset_id)
               Found(r) == IF r.ok THEN Search(r.val) ELSE Out(r, ctx)
           IN  Found(org)
      [] relation_type = JStr("theme") ->
           LET Search(ids) ==
                 RelatedSearch(ctx,
                   "q=*:*&fq="
                     \o quote(JoinSeq([i \in 1..Len(ids) |->
                                         "groups:" \o PyStr(ids[i])], " OR "))
                     \o "&rows=" \o PyStr(max_results),
                   dataset_id)
               Found(r) == IF r.ok THEN Search(r.val) ELSE Out(r, ctx)
               Groups(groups) ==
                 IF ~Truthy(groups) THEN Out(Ret(<<>>), ctx)
                 ELSE Found(Then(Iterate(groups), LAMBDA items :
                                 MapM(LAMBDA g : Subscript(g, "id"), items)))
               Got(r) == IF r.ok THEN Groups(r.val) ELSE Out(r, ctx)
           IN  Got(DictGet(source_dataset, "groups", EmptyList))
      [] OTHER -> Out(Ret(<<>>), ctx)

get_related_datasets(ctx, dataset_id, relation_type, max_results) ==
    AndThen(_make_request(ctx, "GET", "package_show?id=" \o PyStr(dataset_id),
                          None, TRUE),
            LAMBDA source_dataset, c1 :
    AndThen(RelatedBy(c1, source_dataset, dataset_id, relation_type, max_results),
            LAMBDA related, c2 :
            Out(Then(SliceTo(related, max_results), LAMBDA cut : Ret(JList(cut))),
                c2)))

\* d.get(k) on a dictionary known to be one
Field(d, k) == IF k \in DOMAIN d.o THEN d.o[k] ELSE None

\* one entry of field_statistics (lines 350-357)
FieldStatistics(field) ==
    IF field.t # "obj" THEN Raise(AttributeError(field, "get"))
    ELSE Ret(JObj([id |-> Field(field, "id"),
                   type |-> Field(field, "type"),
                   info |-> IF "info" \in DOMAIN field.o THEN field.o["info"]
                            ELSE EmptyDict]))

\* the try block of preview_resource once datastore_search has answered: the
\* fields it adds to the preview, or the exception that sends it to the
\* except clause, with the fields added before the exception
PreviewTry(datastore_info, generate_stats) ==
    IF datastore_info.t # "obj" THEN [ok |-> FALSE, added |-> <<>>]
    ELSE LET basic == [preview_data |-> DictGet(datastore_info, "records", EmptyList).val,
                       total_records |-> DictGet(datastore_info, "total", JNum(0)).val]
             fields == Field(datastore_info, "fields")
             Stats(stats) ==
                 IF ~stats.ok THEN [ok |-> FALSE, added |-> basic]
                 ELSE [ok |-> TRUE,
                       added |-> ("field_statistics" :> JList(stats.val)) @@ basic]
         IN  IF ~(Truthy(generate_stats) /\ Truthy(fields))
             THEN [ok |-> TRUE, added |-> basic]
             ELSE Stats(Then(Iterate(fields),
                             LAMBDA items : MapM(FieldStatistics, items)))

DataStoreNote == JStr("DataStore not available for this resource")

\* the preview once the try block is over: what it added, and on an
\* exception the null preview_data and the note of the except clause
Preview(preview, tried) ==
    JObj(IF tried.ok THEN tried.added @@ preview
         ELSE [preview_data |-> None, note |-> DataStoreNote]
              @@ tried.added @@ preview)

\* preview_resource were the datastore query outside the try block, its
\* failure the operation's: C10 does not hold of it
PreviewSearchedUnguarded(searched, preview, generate_stats) ==
    IF ~searched.out.ok THEN searched
    ELSE Out(Ret(Preview(preview, PreviewTry(searched.out.val, generate_stats))),
             searched.ctx)

\* preview_resource from the answer of datastore_search on
PreviewSearched(searched, preview, generate_stats) ==
    Out(Ret(Preview(preview,
                    IF searched.out.ok
                    THEN PreviewTry(searched.out.val, generate_stats)
                    ELSE [ok |-> FALSE, added |-> <<>>])),
        searched.ctx)

preview_resource(ctx, resource_id, preview_rows, generate_stats) ==
    AndThen(_make_request(ctx, "GET", "resource_show?id=" \o PyStr(resource_id),
                          None, TRUE),
            LAMBDA resource, c :
            IF resource.t # "obj"
            THEN Out(Raise(AttributeError(resource, "get")), c)
            ELSE PreviewSearched(
                   _make_request(c, "GET",
                                 "datastore_search?resource_id=" \o PyStr(resource_id)
                                   \o "&limit=" \o PyStr(preview_rows),
                                 None, TRUE),
                   [resource_id |-> resource_id,
                    resource_name |-> Field(resource, "name"),
                    format |-> Field(resource, "format"),
                    url |-> Field(resource, "url"),
                    size |-> Field(resource, "size"),
                    created |-> Field(resource, "created"),
                    last_modified |-> Field(resource, "last_modified")],
                   generate_stats))

\* params[k] = v on the ordered parameters of a query
SetParam(params, k, v) ==
    IF \E i \in 1..Len(params) : params[i][1] = k
    THEN [i \in 1..Len(params) |-> IF params[i][1] = k THEN <<k, v>> ELSE params[i]]
    ELSE Append(params, <<k, v>>)

HasParam(params, k) == \E i \in 1..Len(params) : params[i][1] = k

ParamOf(params, k) ==
    params[CHOOSE i \in 1..Len(params) : params[i][1] = k][2]

DefaultFacets == "[\"tags\", \"organization\", \"res_format\"]"

\* the filters block of faceted_search (lines 143-147)
WithFilters(params, filters) ==
    IF ~Truthy(filters) THEN Ret(params)
    ELSE IF filters.t # "obj" THEN Raise(AttributeError(filters, "items"))
    ELSE LET ks == SelectSeq(KeyOrder, LAMBDA k : k \in DOMAIN filters.o)
         IN  Ret(SetParam(params, "fq",
                   JoinSeq([i \in 1..Len(ks) |->
                              ks[i] \o ":" \o PyStr(filters.o[ks[i]])], " AND ")))

\* the spatial block of faceted_search (lines 149-156)
WithSpatial(params, spatial_query) ==
    IF ~Truthy(spatial_query) THEN Ret(params)
    ELSE Then(PyIn("bbox", spatial_query), LAMBDA has_bbox :
         IF has_bbox
         THEN Then(Subscript(spatial_query, "bbox"), LAMBDA bbox :
              Then(MapM(LAMBDA i : Index(bbox, i), <<0, 1, 2, 3>>), LAMBDA c :
                   Ret(SetParam(params, "ext_bbox",
                                JoinSeq([i \in 1..4 |-> PyStr(c[i])], ",")))))
         ELSE IF PyIn("point", spatial_query).val /\ PyIn("radius", spatial_query).val
         THEN Then(Subscript(spatial_query, "point"), LAMBDA point :
              Then(Subscript(spatial_query, "radius"), LAMBDA radius :
              Then(MapM(LAMBDA i : Index(point, i), <<0, 1>>), LAMBDA c :
                   Ret(SetParam(params, "ext_spatial",
                                PyStr(c[1]) \o "," \o PyStr(c[2]) \o ","
                                  \o PyStr(radius))))))
         ELSE Ret(params))

\* the date block were it to set fq to the range filter alone, dropping the
\* filter clause: C25 does not hold of it
WithDateRangeReplacing(params, date_range) ==
    IF ~Truthy(date_range) THEN Ret(params)
    ELSE IF date_range.t # "obj" THEN Raise(AttributeError(date_range, "get"))
    ELSE LET start_date == DictGet(date_range, "start", JStr("*")).val
             end_date == DictGet(date_range, "end", JStr("*")).val
             date_field == DictGet(date_range, "field", JStr("metadata_created")).val
         IN  Ret(SetParam(params, "fq",
                   PyStr(date_field) \o ":[" \o PyStr(start_date) \o " TO "
                     \o PyStr(end_date) \o "]"))

\* the date block of faceted_search (lines 158-166)
WithDateRange(params, date_range) ==
    IF ~Truthy(date_range) THEN Ret(params)
    ELSE IF date_range.t # "obj" THEN Raise(AttributeError(date_range, "get"))
    ELSE LET start_date == DictGet(date_range, "start", JStr("*")).val
             end_date == DictGet(date_range, "end", JStr("*")).val
             date_field == DictGet(date_range, "field", JStr("metadata_created")).val
             date_fq == PyStr(date_field) \o ":[" \o PyStr(start_date) \o " TO "
                          \o PyStr(end_date) \o "]"
         IN  Ret(SetParam(params, "fq",
                   IF HasParam(params, "fq")
                   THEN ParamOf(params, "fq") \o " AND " \o date_fq
                   ELSE date_fq))

\* the parameters faceted_search builds, in the order the dictionary holds them
FacetedParams(q, facet_fields, filters, spatial_query, date_range) ==
    Then(WithFilters(<< <<"q", PyStr(q)>>, <<"facet", "true">>,
                        <<"facet.field", IF Truthy(facet_fields)
                                         THEN json_dumps(facet_fields)
                                         ELSE DefaultFacets>>,
                        <<"rows", "100">> >>, filters), LAMBDA filtered :
    Then(WithSpatial(filtered, spatial_query), LAMBDA spatial :
         WithDateRange(spatial, date_range)))

\* the query string and the request of faceted_search (lines 168-169)
FacetedRequest(ctx, params) ==
    IF ~params.ok THEN Out(params, ctx)
    ELSE _make_request(ctx, "GET",
           "package_search?"
             \o JoinSeq([i \in 1..Len(params.val) |->
                           params.val[i][1] \o "=" \o quote(params.val[i][2])], "&"),
           None, TRUE)

faceted_search(ctx, q, facet_fields, filters, spatial_query, date_range) ==
    FacetedRequest(ctx, FacetedParams(q, facet_fields, filters, spatial_query,
                                      date_range))

\* --- check_data_quality
\* numbers as quotients, to add and average them
NumOf(v) == IF v.t = "float" THEN v.num ELSE v.n
DenOf(v) == IF v.t = "float" THEN v.den ELSE 1

RECURSIVE SumScores(_)
SumScores(scores) ==
    IF Len(scores) = 0 THEN JNum(0)
    ELSE LET rest == SumScores(Tail(scores))
             h == Head(scores)
         IN  JFloat(NumOf(h) * DenOf(rest) + NumOf(rest) * DenOf(h),
                    DenOf(h) * DenOf(rest))

\* the mean were it taken over the three checks there are, run or not: C13
\* does not hold of it
MeanOfThree(scores) ==
    IF Len(scores) = 0 THEN JNum(0)
    ELSE LET total == SumScores(scores)
         IN  JFloat(NumOf(total), DenOf(total) * 3)

\* sum(scores) / len(scores) if scores else 0
MeanOrZero(scores) ==
    IF Len(scores) = 0 THEN JNum(0)
    ELSE LET total == SumScores(scores)
         IN  JFloat(NumOf(total), DenOf(total) * Len(scores))

required_fields == <<"title", "notes", "tags", "organization", "resources">>
valid_formats == <<"CSV", "JSON", "XML", "XLS", "XLSX", "PDF", "TXT">>

StrList(names) == JList([i \in 1..Len(names) |-> JStr(names[i])])

CountTrue(flags) == Cardinality({i \in 1..Len(flags) : flags[i]})

\* the completeness check were it to count the fields the dataset has,
\* empty or not: C14 does not hold of it
CompletenessOfKeys(dataset) ==
    LET present_fields ==
            CountTrue([i \in 1..Len(required_fields) |->
                         required_fields[i] \in DOMAIN dataset.o])
        completeness_score == JFloat(present_fields * 100, Len(required_fields))
    IN  [name |-> "completeness",
         score |-> completeness_score,
         entry |-> JObj([score |-> completeness_score,
                         required_fields |-> StrList(required_fields),
                         present_fields |-> JNum(present_fields)])]

\* the completeness check (lines 224-234)
Completeness(dataset) ==
    LET present_fields ==
            CountTrue([i \in 1..Len(required_fields) |->
                         Truthy(Field(dataset, required_fields[i]))])
        completeness_score == JFloat(present_fields * 100, Len(required_fields))
    IN  [name |-> "completeness",
         score |-> completeness_score,
         entry |-> JObj([score |-> completeness_score,
                         required_fields |-> StrList(required_fields),
                         present_fields |-> JNum(present_fields)])]

\* the score of one resource in the format check (lines 242-245)
FormatScore(resource) ==
    IF resource.t # "obj" THEN Raise(AttributeError(resource, "get"))
    ELSE LET format == IF "format" \in DOMAIN resource.o THEN resource.o["format"]
                       ELSE JStr("")
         IN  IF format.t # "str" THEN Raise(AttributeError(format, "upper"))
             ELSE Ret(JNum(IF /\ \E i \in 1..Len(valid_formats) :
                                    valid_formats[i] = upper(format.s)
                              /\ Truthy(Field(resource, "url"))
                           THEN 100 ELSE 0))

\* the format_validation check (lines 236-253)
FormatValidation(dataset) ==
    LET resources == IF "resources" \in DOMAIN dataset.o THEN dataset.o["resources"]
                     ELSE EmptyList
        Entry(format_score, count) ==
            [name |-> "format_validation",
             score |-> format_score,
             entry |-> JObj([score |-> format_score,
                             resource_count |-> JNum(count),
                             valid_formats |-> StrList(valid_formats)])]
    IN  Then(Iterate(resources), LAMBDA items :
        Then(MapM(FormatScore, items), LAMBDA format_scores :
        Then(PyLen(resources), LAMBDA count :
             Ret(Entry(MeanOrZero(format_scores), count)))))

\* the schema_compliance check (lines 255-274)
SchemaCompliance(dataset) ==
    LET has_license == Truthy(Field(dataset, "license_id"))
        has_author == Truthy(Field(dataset, "author"))
                        \/ Truthy(Field(dataset, "author_email"))
        has_maintainer == Truthy(Field(dataset, "maintainer"))
                            \/ Truthy(Field(dataset, "maintainer_email"))
        has_temporal == Truthy(Field(dataset, "temporal_coverage_from"))
                          \/ Truthy(Field(dataset, "temporal_coverage_to"))
        has_spatial == Truthy(Field(dataset, "spatial"))
        compliance_items == <<has_license, has_author, has_maintainer,
                              has_temporal, has_spatial>>
        compliance_score == JFloat(CountTrue(compliance_items) * 100,
                                   Len(compliance_items))
    IN  [name |-> "schema_compliance",
         score |-> compliance_score,
         entry |-> JObj([score |-> compliance_score,
                         has_license |-> JBool(has_license),
                         has_author |-> JBool(has_author),
                         has_maintainer |-> JBool(has_maintainer),
                         has_temporal_coverage |-> JBool(has_temporal),
                         has_spatial_coverage |-> JBool(has_spatial)])]

DefaultChecks == StrList(<<"completeness", "format_validation", "schema_compliance">>)

\* the checks that ran, in the order of the code, or the exception of one
ChecksRun(dataset, checks) ==
    Then(PyIn("completeness", checks), LAMBDA completeness :
    Then(IF PyIn("format_validation", checks).val
         THEN Then(FormatValidation(dataset), LAMBDA fv : Ret(<<fv>>))
         ELSE Ret(<<>>), LAMBDA format_validation :
         Ret((IF completeness THEN <<Completeness(dataset)>> ELSE <<>>)
             \o format_validation
             \o (IF PyIn("schema_compliance", checks).val
                 THEN <<SchemaCompliance(dataset)>> ELSE <<>>))))

\* quality_report once the checks in ran have run (lines 214-220, 276)
Report(dataset, dataset_id, ran) ==
    JObj([dataset_id |-> dataset_id,
          dataset_name |-> Field(dataset, "name"),
          checks |-> JObj([n \in {ran[i].name : i \in 1..Len(ran)} |->
                             ran[CHOOSE i \in 1..Len(ran) : ran[i].name = n].entry]),
          overall_score |-> MeanOrZero([i \in 1..Len(ran) |-> ran[i].score])])

\* the report check_data_quality builds from the fetched dataset
QualityReport(dataset, dataset_id, checks_arg) ==
    IF dataset.t # "obj" THEN Raise(AttributeError(dataset, "get"))
    ELSE Then(ChecksRun(dataset, IF checks_arg = None THEN DefaultChecks
                                 ELSE checks_arg),
              LAMBDA ran : Ret(Report(dataset, dataset_id, ran)))

\* check_data_quality were it to fetch its dataset past the cache: C29 does
\* not hold of it
CheckQualityUncached(ctx, dataset_id, checks, sample_size) ==
    AndThen(_make_request(ctx, "GET", "package_show?id=" \o PyStr(dataset_id),
                          None, FALSE),
            LAMBDA dataset, c : Out(QualityReport(dataset, dataset_id, checks), c))

\* check_data_quality were it to run its checks on the first sample_size
\* resources only: C26 does not hold of it
CheckQualitySampling(ctx, dataset_id, checks, sample_size) ==
    AndThen(_make_request(ctx, "GET", "package_show?id=" \o PyStr(dataset_id),
                          None, TRUE),
            LAMBDA dataset, c :
                Out(QualityReport(
                        IF /\ dataset.t = "obj"
                           /\ "resources" \in DOMAIN dataset.o
                           /\ dataset.o.resources.t = "list"
                           /\ sample_size.t = "num"
                        THEN JObj([dataset.o EXCEPT !.resources =
                                     JList(SliceTo(@.l, sample_size).val)])
                        ELSE dataset,
                        dataset_id, checks), c))

check_data_quality(ctx, dataset_id, checks, sample_size) ==
    AndThen(_make_request(ctx, "GET", "package_show?id=" \o PyStr(dataset_id),
                          None, TRUE),
            LAMBDA dataset, c : Out(QualityReport(dataset, dataset_id, checks), c))

\* --- get_dataset_analytics
DefaultMetrics == StrList(<<"views", "downloads", "api_calls", "resource_count">>)
DefaultTimeRange == JObj([start |-> JStr("30_days_ago"), end |-> JStr("now")])

\* dataset.get(k, {}).get(sub, default)
SubField(dataset, k, sub, default) ==
    Then(DictGet(dataset, k, EmptyDict), LAMBDA inner : DictGet(inner, sub, default))

\* len(dataset.get(k, []))
CountOf(dataset, k) ==
    Then(DictGet(dataset, k, EmptyList), LAMBDA got : PyLen(got))

\* metrics[k] = the value of r, when the metric is wanted
Metric(wanted, k, r) ==
    IF ~wanted THEN Ret(<<>>) ELSE Then(r, LAMBDA v : Ret(k :> v))

\* the metrics of one dataset (lines 313-327), steps in the order of the code
DatasetMetrics(dataset, metrics) ==
    Then(PyIn("resource_count", metrics), LAMBDA want_count :
    Then(Metric(want_count, "resource_count",
                Then(CountOf(dataset, "resources"), LAMBDA n : Ret(JNum(n)))),
         LAMBDA resource_count :
    Then(Metric(PyIn("views", metrics).val, "views",
                SubField(dataset, "tracking_summary", "total", JNum(0))),
         LAMBDA views :
    Then(Metric(PyIn("downloads", metrics).val, "downloads",
                SubField(dataset, "tracking_summary", "recent", JNum(0))),
         LAMBDA downloads :
    Then(DictGet(dataset, "metadata_created", None), LAMBDA created :
    Then(CountOf(dataset, "tags"), LAMBDA tags_count :
    Then(SubField(dataset, "organization", "name", None), LAMBDA organization :
         Ret(JObj(resource_count @@ views @@ downloads
                  @@ [created |-> created,
                      modified |-> Field(dataset, "metadata_modified"),
                      tags_count |-> JNum(tags_count),
                      organization |-> organization])))))))))

\* one entry of popular_datasets (line 306)
PopularEntry(ds) ==
    Then(Subscript(ds, "id"), LAMBDA id :
    Then(Subscript(ds, "name"), LAMBDA name :
         Ret(JObj([id |-> id, name |-> name,
                   resources |-> DictGet(ds, "num_resources", JNum(0)).val]))))

\* popular.get("results", [])[:5], each mapped to its entry
PopularDatasets(popular) ==
    Then(DictGet(popular, "results", EmptyList), LAMBDA got :
         IF got.t = "str"
         THEN MapM(PopularEntry, SliceTo(Iterate(got).val, JNum(5)).val)
         ELSE IF got.t # "list"
         THEN Raise(IF got.t = "obj" THEN "unhashable type: 'slice'"
                    ELSE "'" \o TypeName(got) \o "' object is not subscriptable")
         ELSE MapM(PopularEntry, SliceTo(got.l, JNum(5)).val))

RecentQuery == "q=*:*&sort=metadata_created desc&rows=10"
PopularQuery == "q=*:*&sort=num_resources desc&rows=10"

\* the site-wide branch (lines 293-308)
SiteMetrics(ctx) ==
    AndThen(_make_request(ctx, "GET", "status_show", None, TRUE),
            LAMBDA site_stats, c1 :
    AndThen(_make_request(c1, "GET", "package_list", None, TRUE),
            LAMBDA package_list, c2 :
    AndThen(Out(PyLen(package_list), c2),
            LAMBDA total, c3 :
    AndThen(_make_request(c3, "GET", "package_search?" \o RecentQuery, None, TRUE),
            LAMBDA recent, c4 :
    AndThen(Out(DictGet(recent, "count", JNum(0)), c4),
            LAMBDA count, c5 :
    AndThen(_make_request(c5, "GET", "package_search?" \o PopularQuery, None, TRUE),
            LAMBDA popular, c6 :
    AndThen(Out(PopularDatasets(popular), c6),
            LAMBDA top, c7 :
            Out(Ret(JObj([total_datasets |-> JNum(total),
                          site_status |-> site_stats,
                          recent_datasets |-> count,
                          popular_datasets |-> JList(top)])),
                c7))))))))

\* analytics (lines 286-290) with its metrics filled in
Analytics(dataset_id, time_range, m) ==
    JObj([dataset_id |-> dataset_id,
          time_range |-> IF Truthy(time_range) THEN time_range ELSE DefaultTimeRange,
          metrics |-> m])

get_dataset_analytics(ctx, dataset_id, time_range, metrics_arg) ==
    IF dataset_id = JStr("all")
    THEN AndThen(SiteMetrics(ctx), LAMBDA m, c :
                 Out(Ret(Analytics(dataset_id, time_range, m)), c))
    ELSE AndThen(_make_request(ctx, "GET", "package_show?id=" \o PyStr(dataset_id),
                               None, TRUE),
                 LAMBDA dataset, c :
                 Out(Then(DatasetMetrics(dataset, IF metrics_arg = None
                                                  THEN DefaultMetrics
                                                  ELSE metrics_arg),
                          LAMBDA m : Ret(Analytics(dataset_id, time_range, m))),
                     c))

\* --- export_metadata
\* [tag["name"] for tag in dataset.get("tags", [])]
TagNames(dataset) ==
    Then(DictGet(dataset, "tags", EmptyList), LAMBDA got :
    Then(Iterate(got), LAMBDA items :
         MapM(LAMBDA tag : Subscript(tag, "name"), items)))

\* the distribution list of a dataset when it is asked for: one entry per
\* resource, made by Entry, under the key k
Distributions(dataset, include_resources, k, Entry(_)) ==
    IF ~Truthy(include_resources) THEN Ret(<<>>)
    ELSE Then(Iterate(DictGet(dataset, "resources", EmptyList).val), LAMBDA items :
         Then(MapM(LAMBDA resource :
                     IF resource.t # "obj"
                     THEN Raise(AttributeError(resource, "get"))
                     ELSE Ret(Entry(resource)),
                   items), LAMBDA distribution :
              Ret(k :> JList(distribution))))

DcatDistribution(resource) ==
    JObj(("@type" :> JStr("dcat:Distribution"))
         @@ ("dct:identifier" :> Field(resource, "id"))
         @@ ("dct:title" :> Field(resource, "name"))
         @@ ("dcat:accessURL" :> Field(resource, "url"))
         @@ ("dct:format" :> Field(resource, "format"))
         @@ ("dcat:byteSize" :> Field(resource, "size")))

SchemaOrgDistribution(resource) ==
    JObj(("@type" :> JStr("DataDownload"))
         @@ ("name" :> Field(resource, "name"))
         @@ ("contentUrl" :> Field(resource, "url"))
         @@ ("encodingFormat" :> Field(resource, "format"))
         @@ ("contentSize" :> Field(resource, "size")))

\* the dcat branch (lines 380-409)
DcatDataset(dataset, include_resources) ==
    IF dataset.t # "obj" THEN Raise(AttributeError(dataset, "get"))
    ELSE Then(TagNames(dataset), LAMBDA keywords :
         Then(SubField(dataset, "organization", "name", None), LAMBDA publisher :
         Then(Distributions(dataset, include_resources, "dcat:distribution",
                            DcatDistribution), LAMBDA distribution :
              Ret(JObj(distribution
                       @@ ("@type" :> JStr("dcat:Dataset"))
                       @@ ("dct:identifier" :> Field(dataset, "id"))
                       @@ ("dct:title" :> Field(dataset, "title"))
                       @@ ("dct:description" :> Field(dataset, "notes"))
                       @@ ("dcat:keyword" :> JList(keywords))
                       @@ ("dct:issued" :> Field(dataset, "metadata_created"))
                       @@ ("dct:modified" :> Field(dataset, "metadata_modified"))
                       @@ ("dct:publisher" :>
                             JObj(("@type" :> JStr("foaf:Organization"))
                                  @@ ("foaf:name" :> publisher))))))))

\* the schema_org branch (lines 411-440)
SchemaOrgDataset(dataset, include_resources) ==
    IF dataset.t # "obj" THEN Raise(AttributeError(dataset, "get"))
    ELSE Then(TagNames(dataset), LAMBDA keywords :
         Then(SubField(dataset, "organization", "name", None), LAMBDA publisher :
         Then(Distributions(dataset, include_resources, "distribution",
                            SchemaOrgDistribution), LAMBDA distribution :
              Ret(JObj(distribution
                       @@ ("@context" :> JStr("https://schema.org/"))
                       @@ ("@type" :> JStr("Dataset"))
                       @@ ("name" :> Field(dataset, "title"))
                       @@ ("description" :> Field(dataset, "notes"))
                       @@ ("identifier" :> Field(dataset, "id"))
                       @@ ("keywords" :> JList(keywords))
                       @@ ("dateCreated" :> Field(dataset, "metadata_created"))
                       @@ ("dateModified" :> Field(dataset, "metadata_modified"))
                       @@ ("publisher" :>
                             JObj(("@type" :> JStr("Organization"))
                                  @@ ("name" :> publisher))))))))

\* what one fetched dataset adds to exported_data["datasets"]
Transformed(dataset, export_format, include_resources) ==
    CASE export_format = JStr("dcat") ->
           Then(DcatDataset(dataset, include_resources), LAMBDA d : Ret(<<d>>))
      [] export_format = JStr("schema_org") ->
           Then(SchemaOrgDataset(dataset, include_resources), LAMBDA d : Ret(<<d>>))
      [] export_format = JStr("ckan_native") -> Ret(<<dataset>>)
      [] OTHER -> Ret(<<>>)

\* the loop over dataset_ids (lines 377-444): the datasets exported so far
RECURSIVE ExportLoop(_, _, _, _, _)
ExportLoop(ctx, ids, export_format, include_resources, datasets) ==
    IF Len(ids) = 0 THEN Out(Ret(datasets), ctx)
    ELSE AndThen(_make_request(ctx, "GET", "package_show?id=" \o PyStr(Head(ids)),
                               None, TRUE),
                 LAMBDA dataset, c1 :
         AndThen(Out(Transformed(dataset, export_format, include_resources), c1),
                 LAMBDA t, c2 :
                 ExportLoop(c2, Tail(ids), export_format, include_resources,
                            datasets \o t)))

export_metadata(ctx, dataset_ids, export_format, include_resources) ==
    AndThen(Out(Iterate(dataset_ids), ctx), LAMBDA ids, c1 :
    AndThen(ExportLoop(c1, ids, export_format, include_resources, <<>>),
            LAMBDA datasets, c2 :
            Out(Ret(JObj([export_format |-> export_format,
                          datasets |-> JList(datasets)])),
                c2)))

\* ------------------------------------------------- the explorer (ckan_cli.py)
\* s.split(sep), for a separator of one character
RECURSIVE split(_, _)
split(s, sep) ==
    IF \A i \in 1..Len(s) : SubSeq(s, i, i) # sep THEN <<s>>
    ELSE LET i == CHOOSE i \in 1..Len(s) :
                    /\ SubSeq(s, i, i) = sep
                    /\ \A j \in 1..(i - 1) : SubSeq(s, j, j) # sep
         IN  <<SubSeq(s, 1, i - 1)>> \o split(SubSeq(s, i + 1, Len(s)), sep)

\* str.strip were it to leave the string as it is: C19 does not hold of it
StripNothing(s) == s

\* s.strip(): s without the spaces at its ends
strip(s) ==
    LET inner == {i \in 1..Len(s) : SubSeq(s, i, i) # " "}
    IN  IF inner = {} THEN ""
        ELSE SubSeq(s, CHOOSE i \in inner : \A j \in inner : i <= j,
                       CHOOSE i \in inner : \A j \in inner : j <= i)

\* CKANExplorer.search_packages(query, rows, organization, tags)
search_packages(ctx, query, rows, organization, tags) ==
    LET pieces == IF Truthy(tags) THEN split(tags.s, ",") ELSE <<>>
        fq_parts ==
            (IF Truthy(organization)
             THEN <<"organization:" \o PyStr(organization)>> ELSE <<>>)
            \o [i \in 1..Len(pieces) |-> "tags:" \o strip(pieces[i])]
        fq == IF Len(fq_parts) > 0 THEN JoinSeq(fq_parts, " AND ") ELSE ""
        params == << <<"q", PyStr(query)>>, <<"rows", PyStr(rows)>> >>
                  \o (IF fq # "" THEN << <<"fq", fq>> >> ELSE <<>>)
    IN  _make_request(ctx, "GET",
          "package_search?"
            \o JoinSeq([i \in 1..Len(params) |-> params[i][1] \o "=" \o params[i][2]],
                       "&"),
          None, TRUE)

\* ------------------------------------------- the envelope and the dispatcher
INVALID_PARAMS == "invalid_parameters"
CKAN_API_ERROR == "ckan_api_error"
NETWORK_ERROR == "network_error"
PERMISSION_DENIED == "permission_denied"
DATA_NOT_FOUND == "data_not_found"

MCPErrorType ==
    {INVALID_PARAMS, CKAN_API_ERROR, NETWORK_ERROR, PERMISSION_DENIED, DATA_NOT_FOUND}

\* StandardResponse.metadata; the timestamp is left out, and no time passes
\* during a call
Metadata == [execution_time_ms |-> 0, api_version |-> "2.0.0"]

\* StandardResponse(success, data, error).to_dict(); error is None or a
\* dictionary
to_dict(success, data, error) ==
    [success |-> success, metadata |-> Metadata]
    @@ (IF data # None THEN "data" :> data ELSE <<>>)
    @@ (IF error # None /\ DOMAIN error # {} THEN "error" :> error ELSE <<>>)

\* the classification were it to leave unmatched messages outside the five
\* kinds: C3 does not hold of it
ErrorTypeOrUnknown(message) ==
    LET m == lower(message)
    IN  IF Contains("not found", m) THEN DATA_NOT_FOUND
        ELSE IF Contains("connection", m) THEN NETWORK_ERROR
        ELSE "unknown_error"

\* the classification were the transport rule tried before the others: C24
\* does not hold of it
ErrorTypeNetworkFirst(message) ==
    LET m == lower(message)
    IN  IF Contains("network", m) \/ Contains("connection", m)
        THEN NETWORK_ERROR
        ELSE IF Contains("not found", m) THEN DATA_NOT_FOUND
        ELSE IF Contains("permission", m) \/ Contains("unauthorized", m)
        THEN PERMISSION_DENIED
        ELSE IF Contains("invalid", m) \/ Contains("parameter", m)
        THEN INVALID_PARAMS
        ELSE CKAN_API_ERROR

\* the error type the handler picks from str(e) (lines 861-869)
ErrorTypeOf(message) ==
    LET m == lower(message)
    IN  IF Contains("not found", m) THEN DATA_NOT_FOUND
        ELSE IF Contains("permission", m) \/ Contains("unauthorized", m)
        THEN PERMISSION_DENIED
        ELSE IF Contains("network", m) \/ Contains("connection", m)
        THEN NETWORK_ERROR
        ELSE IF Contains("invalid", m) \/ Contains("parameter", m)
        THEN INVALID_PARAMS
        ELSE CKAN_API_ERROR

NotInitialized ==
    "CKAN client not initialized. Please set CKAN_URL environment variable."

\* arguments.get(k, default) if arguments else default
OptArg(arguments, k, default) ==
    IF Truthy(arguments) THEN DictGet(arguments, k, default) ELSE Ret(default)

\* "&".join(f"{key}={value}" for the items of (arguments or {}) that are not None)
QueryOf(arguments) ==
    LET params == IF Truthy(arguments) THEN arguments ELSE EmptyDict
    IN  IF params.t # "obj" THEN Raise(AttributeError(params, "items"))
        ELSE LET ks == SelectSeq(KeyOrder,
                         LAMBDA k : k \in DOMAIN params.o /\ params.o[k] # None)
             IN  Ret(JoinSeq([i \in 1..Len(ks) |->
                                ks[i] \o "=" \o PyStr(params.o[ks[i]])], "&"))

\* a tool that is one request: the endpoint, or the exception building it
Passthrough(ctx, endpoint) ==
    IF ~endpoint.ok THEN Out(endpoint, ctx)
    ELSE _make_request(ctx, "GET", endpoint.val, None, TRUE)

\* the first exception among the evaluated arguments, in order
FirstRaised(args) ==
    LET bad == {i \in 1..Len(args) : ~args[i].ok}
    IN  IF bad = {} THEN Ret(None)
        ELSE args[CHOOSE i \in bad : \A j \in bad : i <= j]

\* the branches of the try block (lines 750-846)
Dispatch(ctx, name, arguments) ==
    CASE name = "ckan_package_list" ->
           LET limit == OptArg(arguments, "limit", JNum(100))
               offset == OptArg(arguments, "offset", JNum(0))
               bad == FirstRaised(<<limit, offset>>)
           IN  Passthrough(ctx,
                 IF ~bad.ok THEN bad
                 ELSE Ret("package_list?limit=" \o PyStr(limit.val)
                            \o "&offset=" \o PyStr(offset.val)))
      [] name = "ckan_package_show" ->
           LET package_id == Subscript(arguments, "id")
           IN  Passthrough(ctx,
                 IF ~package_id.ok THEN package_id
                 ELSE Ret("package_show?id=" \o PyStr(package_id.val)))
      [] name = "ckan_package_search" ->
           LET query_string == QueryOf(arguments)
           IN  Passthrough(ctx,
                 IF ~query_string.ok THEN query_string
                 ELSE Ret("package_search?" \o query_string.val))
      [] name = "ckan_organization_list" ->
           LET all_fields == OptArg(arguments, "all_fields", JBool(FALSE))
           IN  Passthrough(ctx,
                 IF ~all_fields.ok THEN all_fields
                 ELSE Ret("organization_list?all_fields=" \o PyStr(all_fields.val)))
      [] name = "ckan_organization_show" ->
           LET org_id == Subscript(arguments, "id")
               include_datasets == DictGet(arguments, "include_datasets", JBool(FALSE))
               bad == FirstRaised(<<org_id, include_datasets>>)
           IN  Passthrough(ctx,
                 IF ~bad.ok THEN bad
                 ELSE Ret("organization_show?id=" \o PyStr(org_id.val)
                            \o "&include_datasets=" \o PyStr(include_datasets.val)))
      [] name = "ckan_group_list" ->
           LET all_fields == OptArg(arguments, "all_fields", JBool(FALSE))
           IN  Passthrough(ctx,
                 IF ~all_fields.ok THEN all_fields
                 ELSE Ret("group_list?all_fields=" \o PyStr(all_fields.val)))
      [] name = "ckan_tag_list" ->
           LET query_string == QueryOf(arguments)
           IN  Passthrough(ctx,
                 IF ~query_string.ok THEN query_string
                 ELSE Ret(IF query_string.val # ""
                          THEN "tag_list?" \o query_string.val
                          ELSE "tag_list"))
      [] name = "ckan_resource_show" ->
           LET resource_id == Subscript(arguments, "id")
           IN  Passthrough(ctx,
                 IF ~resource_id.ok THEN resource_id
                 ELSE Ret("resource_show?id=" \o PyStr(resource_id.val)))
      [] name = "ckan_site_read" -> Passthrough(ctx, Ret("site_read"))
      [] name = "ckan_status_show" -> Passthrough(ctx, Ret("status_show"))
      [] name = "ckan_faceted_search" ->
           LET q == DictGet(arguments, "q", JStr("*:*"))
           IN  IF ~q.ok THEN Out(q, ctx)
               ELSE faceted_search(ctx, q.val,
                      DictGet(arguments, "facet_fields", None).val,
                      DictGet(arguments, "filters", None).val,
                      DictGet(arguments, "spatial_query", None).val,
                      DictGet(arguments, "date_range", None).val)
      [] name = "ckan_related_datasets" ->
           LET dataset_id == Subscript(arguments, "dataset_id")
           IN  IF ~dataset_id.ok THEN Out(dataset_id, ctx)
               ELSE get_related_datasets(ctx, dataset_id.val,
                      DictGet(arguments, "relation_type", JStr("tags")).val,
                      DictGet(arguments, "max_results", JNum(10)).val)
      [] name = "ckan_data_quality_check" ->
           LET dataset_id == Subscript(arguments, "dataset_id")
           IN  IF ~dataset_id.ok THEN Out(dataset_id, ctx)
               ELSE check_data_quality(ctx, dataset_id.val,
                      DictGet(arguments, "checks", None).val,
                      DictGet(arguments, "sample_size", JNum(100)).val)
      [] name = "ckan_dataset_analytics" ->
           LET dataset_id == DictGet(arguments, "dataset_id", JStr("all"))
           IN  IF ~dataset_id.ok THEN Out(dataset_id, ctx)
               ELSE get_dataset_analytics(ctx, dataset_id.val,
                      DictGet(arguments, "time_range", None).val,
                      DictGet(arguments, "metrics", None).val)
      [] name = "ckan_resource_preview" ->
           LET resource_id == Subscript(arguments, "resource_id")
           IN  IF ~resource_id.ok THEN Out(resource_id, ctx)
               ELSE preview_resource(ctx, resource_id.val,
                      DictGet(arguments, "preview_rows", JNum(10)).val,
                      DictGet(arguments, "generate_stats", JBool(TRUE)).val)
      [] name = "ckan_metadata_exporter" ->
           LET dataset_ids == Subscript(arguments, "dataset_ids")
           IN  IF ~dataset_ids.ok THEN Out(dataset_ids, ctx)
               ELSE export_metadata(ctx, dataset_ids.val,
                      DictGet(arguments, "export_format", JStr("dcat")).val,
                      DictGet(arguments, "include_resources", JBool(TRUE)).val)
      [] OTHER -> Out(Raise("Unknown tool: " \o name), ctx)

\* the envelope of the try block's outcome r: the success envelope (lines
\* 848-856) or the one of the except clause (lines 858-880)
Envelope(r, name, arguments) ==
    IF r.out.ok
    THEN [envelope |-> to_dict(TRUE, r.out.val, None), ctx |-> r.ctx,
          raised |-> FALSE]
    ELSE [envelope |-> to_dict(FALSE, None,
                         [type |-> ErrorTypeOf(r.out.exc),
                          message |-> r.out.exc,
                          tool |-> name,
                          arguments |-> arguments]),
          ctx |-> r.ctx, raised |-> TRUE]

\* handle_call_tool(name, arguments): the envelope it returns, before
\* json.dumps, the state it leaves, and whether the try block raised
handle_call_tool(ctx, name, arguments) ==
    IF ckan_client = "none"
    THEN [envelope |-> to_dict(FALSE, None,
                         [type |-> CKAN_API_ERROR, message |-> NotInitialized]),
          ctx |-> ctx, raised |-> FALSE]
    ELSE Envelope(Dispatch(ctx, name, arguments), name, arguments)

\* ------------------------------------------------------------------- state
NoCall == [op |-> "none", n |-> 0]

Init ==
    /\ ckan_client = "none"
    /\ session = "none"
    /\ cache = <<>>
    /\ now = 0
    /\ ops = 0
    /\ last = NoCall
    /\ scope = "none"
    /\ inflight = [i \in 1..MaxInvocations |-> [pc |-> "idle"]]

\* CKANAPIClient.__aenter__, entered by the scope that owns the client
AEnter ==
    /\ session = "none"
    /\ session' = "open"
    /\ scope' = "client"
    /\ UNCHANGED <<ckan_client, cache, now, ops, last, inflight>>

\* the scope were it left with the session as it is: C17 does not hold of it
AExitLeavingOpen ==
    /\ session = "open"
    /\ scope' = "left"
    /\ UNCHANGED <<ckan_client, session, cache, now, ops, last, inflight>>

\* CKANAPIClient.__aexit__, run when the scope is left: at the end of the
\* async with block or of main's try, by its last statement or by an
\* exception
AExit ==
    /\ session = "open"
    /\ session' = "closed"
    /\ scope' = "left"
    /\ UNCHANGED <<ckan_client, cache, now, ops, last, inflight>>

\* main(): the handle is set and the session opened before the server runs
Main ==
    /\ ckan_client = "none"
    /\ session = "none"
    /\ ckan_client' = "set"
    /\ session' = "open"
    /\ scope' = "main"
    /\ UNCHANGED <<cache, now, ops, last, inflight>>

\* The clock moves on between calls, by just under or exactly one TTL
TickSteps == {cache_ttl - 1, cache_ttl}

Tick ==
    /\ \E d \in TickSteps :
         /\ now + d <= MaxTime
         /\ now' = now + d
    /\ UNCHANGED <<ckan_client, session, cache, ops, last, scope, inflight>>

\* ------------------------------------------------ the portal, as the model
\* lets it answer
ErrNotFound == JObj([__type |-> JStr("Not Found Error"), message |-> JStr("Not found")])
ErrAuth == JObj([__type |-> JStr("Authorization Error"),
                 message |-> JStr("Access denied: user not authorized to read package")])

Ok(result) == JsonResponse(JObj([success |-> JBool(TRUE), result |-> result]))
Fail(error) == JsonResponse(JObj([success |-> JBool(FALSE), error |-> error]))

ConnectionReset == ClientError("[Errno 104] Connection reset by peer")
DnsFailure ==
    ClientError("Cannot connect to host ckan:443 ssl:default [Name or service not known]")
Timeout == OtherError("")

\* ---------------------------------------------------- a direct request, as
\* the explorer and the demo make it (client._make_request(...))
CacheRequests ==
    { Request("GET", "status_show", None),
      Request("GET", "status_show", JObj([q |-> JStr("a")])),
      Request("POST", "status_show", None) }

CacheResponses ==
    { Ok(JObj([name |-> JStr("a")])), Ok(None), Fail(ErrNotFound), ConnectionReset,
      Timeout }

\* the call's effect on the state, and the record of it
Requested(req, use_cache, r, entry) ==
    /\ r.ctx.rest = <<>>
    /\ ~r.ctx.starved
    /\ cache' = r.ctx.cache
    /\ last' = [op |-> "request", n |-> 1 - last.n, req |-> req,
                use_cache |-> use_cache, out |-> r.out,
                net |-> r.ctx.net,
                age |-> IF entry = None THEN -1 ELSE now - entry.timestamp]

CallMakeRequest ==
    \E req \in CacheRequests, use_cache \in BOOLEAN,
       resps \in {<<>>} \cup {<<r>> : r \in CacheResponses} :
        /\ Requested(req, use_cache,
                     _make_request(Ctx(cache, resps), req.method, req.endpoint,
                                   req.data, use_cache),
                     CacheGet(cache,
                              _get_cache_key(req.method, req.endpoint, req.data)))
        /\ UNCHANGED <<ckan_client, session, now, ops, scope, inflight>>

NextCache == AEnter \/ AExit \/ Tick \/ CallMakeRequest

SpecCache == Init /\ [][NextCache]_vars

\* ------------------------------------------------ _get_cache_key, applied
\* to two requests: methods and endpoints with and without the separator,
\* bodies that are absent, empty and not empty
CallGetCacheKey ==
    \E t1, t2 \in [method : {"GET", "GET:a"},
                    endpoint : {"b", "a:b", "status_show"},
                    data : {None, EmptyDict, JObj([q |-> JStr("a")]),
                            JObj([q |-> JStr("a"), rows |-> JNum(5)])}] :
        /\ last' = [op |-> "key", n |-> 1 - last.n, t1 |-> t1, t2 |-> t2,
                    key1 |-> _get_cache_key(t1.method, t1.endpoint, t1.data),
                    key2 |-> _get_cache_key(t2.method, t2.endpoint, t2.data)]
        /\ UNCHANGED <<ckan_client, session, cache, now, ops, scope, inflight>>

SpecKeys == Init /\ [][CallGetCacheKey]_vars

\* ----------------------------------------------------- a tool invocation
\* handle_call_tool(name, arguments), the network answering its calls with
\* resps, in order
Handled(name, arguments, r) ==
    /\ r.ctx.rest = <<>>
    /\ ~r.ctx.starved
    /\ cache' = r.ctx.cache
    /\ last' = [op |-> "tool", n |-> 1 - last.n, name |-> name,
                arguments |-> arguments, envelope |-> r.envelope,
                net |-> r.ctx.net, raised |-> r.raised,
                initialized |-> ckan_client # "none", at |-> now]

Handle(name, arguments, resps) ==
    /\ Handled(name, arguments, handle_call_tool(Ctx(cache, resps), name, arguments))
    /\ ops' = ops + 1
    /\ UNCHANGED <<ckan_client, session, now, scope, inflight>>

\* The answers the network gives to the successive requests of one call:
\* every sequence of at most n answers, drawn from all, that the call F
\* consumes whole (it asks for one more answer after each proper prefix, and
\* for none after the last)
Answers(F(_), all, n) ==
    LET Split(asked, done) ==
            LET tried == {<<p, F(p).ctx.starved>> : p \in asked}
            IN  [done |-> done \cup {t[1] : t \in {u \in tried : ~u[2]}},
                 more |-> {t[1] : t \in {u \in tried : u[2]}}]
        Extend(prev) ==
            Split({Append(p, x) : p \in prev.more, x \in all}, prev.done)
        Level[k \in 0..n] ==
            IF k = 0 THEN Split({<<>>}, {}) ELSE Extend(Level[k - 1])
    IN  Level[n].done

\* the portal's records of the model
Org1 == JObj([id |-> JStr("o1"), name |-> JStr("org")])
Tag1 == JObj([name |-> JStr("t1")])
Group1 == JObj([id |-> JStr("g1")])
Res1 == JObj([id |-> JStr("R"), name |-> JStr("r1"), format |-> JStr("csv"),
              url |-> JStr("http://h/r1")])
Res2 == JObj([id |-> JStr("R2"), name |-> JStr("r2"), format |-> None])

DatasetFull ==
    JObj([id |-> JStr("X"), name |-> JStr("nx"), title |-> JStr("T"),
          organization |-> Org1, tags |-> JList(<<Tag1>>),
          groups |-> JList(<<Group1>>), resources |-> JList(<<Res1, Res2>>)])

\* the tools of handle_list_tools, and two names that are none of them
KnownTools ==
    {"ckan_package_list", "ckan_package_show", "ckan_package_search",
     "ckan_organization_list", "ckan_organization_show", "ckan_group_list",
     "ckan_tag_list", "ckan_resource_show", "ckan_site_read", "ckan_status_show",
     "ckan_faceted_search", "ckan_related_datasets", "ckan_data_quality_check",
     "ckan_dataset_analytics", "ckan_resource_preview", "ckan_metadata_exporter"}

ToolNames == KnownTools \cup {"ckan_package_delete", "connection_test"}

\* the tools whose schema declares a required argument, with that argument
RequiredArgument ==
    [ckan_package_show |-> "id", ckan_organization_show |-> "id",
     ckan_resource_show |-> "id", ckan_related_datasets |-> "dataset_id",
     ckan_data_quality_check |-> "dataset_id",
     ckan_resource_preview |-> "resource_id",
     ckan_metadata_exporter |-> "dataset_ids"]

\* one argument map per tool that its schema accepts
ValidArguments(name) ==
    CASE name = "ckan_package_list" -> JObj([limit |-> JNum(5)])
      [] name = "ckan_package_show" -> JObj([id |-> JStr("X")])
      [] name = "ckan_package_search" -> JObj([q |-> JStr("a"), fq |-> None])
      [] name = "ckan_organization_list" -> JObj([all_fields |-> JBool(TRUE)])
      [] name = "ckan_organization_show" -> JObj([id |-> JStr("o1")])
      [] name = "ckan_group_list" -> JObj([all_fields |-> JBool(TRUE)])
      [] name = "ckan_tag_list" -> JObj([vocabulary_id |-> JStr("v")])
      [] name = "ckan_resource_show" -> JObj([id |-> JStr("R")])
      [] name = "ckan_faceted_search" -> JObj([q |-> JStr("a")])
      [] name = "ckan_related_datasets" -> JObj([dataset_id |-> JStr("X")])
      [] name = "ckan_data_quality_check" -> JObj([dataset_id |-> JStr("X")])
      [] name = "ckan_dataset_analytics" -> JObj([dataset_id |-> JStr("X")])
      [] name = "ckan_resource_preview" -> JObj([resource_id |-> JStr("R")])
      [] name = "ckan_metadata_exporter" ->
           JObj([dataset_ids |-> JList(<<JStr("X"), JStr("Y")>>)])
      [] OTHER -> EmptyDict

\* absent, empty, and one valid argument map
ToolArguments(name) == {None, EmptyDict, ValidArguments(name)}

ToolResponses ==
    {Ok(DatasetFull), Ok(None), Ok(EmptyList), Fail(ErrNotFound), Fail(ErrAuth),
     ConnectionReset, DnsFailure, Timeout}

CallTool ==
    /\ ops < MaxOps
    /\ \E name \in ToolNames :
         \E arguments \in ToolArguments(name) :
           \E resps \in Answers(LAMBDA p : handle_call_tool(Ctx(cache, p), name,
                                                            arguments),
                                ToolResponses, MaxRequests) :
              Handle(name, arguments, resps)

Next == Main \/ CallTool

Spec == Init /\ [][Next]_vars

\* ------------------------------------------- get_related_datasets, called
\* on the running server's client
DatasetBare == JObj([id |-> JStr("X"), name |-> JStr("nx")])
DatasetNullOrg ==
    JObj([id |-> JStr("X"), name |-> JStr("nx"), organization |-> None,
          tags |-> EmptyList, groups |-> EmptyList])
DatasetOrgNoId ==
    JObj([id |-> JStr("X"), name |-> JStr("nx"),
          organization |-> JObj([name |-> JStr("org")]),
          tags |-> EmptyList, groups |-> EmptyList])
Other1 == JObj([id |-> JStr("Y"), name |-> JStr("ny")])
Other2 == JObj([id |-> JStr("Z"), name |-> JStr("nz")])

\* the answer of package_search: its count and its rows
Found(rows) == Ok(JObj([count |-> JNum(Len(rows)), results |-> JList(rows)]))

RelatedResponses ==
    {Ok(DatasetFull), Ok(DatasetBare), Ok(DatasetNullOrg), Ok(DatasetOrgNoId),
     Found(<<Other1, DatasetFull, Other2>>), Found(<<Other2, Other1>>),
     Fail(ErrNotFound), ConnectionReset}

\* the identifiers package_show takes for the source dataset: its id, its name
SourceIdentifiers == {JStr("X"), JStr("nx")}

Related(dataset_id, relation_type, max_results, r) ==
    /\ r.ctx.rest = <<>>
    /\ ~r.ctx.starved
    /\ cache' = r.ctx.cache
    /\ last' = [op |-> "related", n |-> 1 - last.n, dataset_id |-> dataset_id,
                relation_type |-> relation_type, max_results |-> max_results,
                out |-> r.out, net |-> r.ctx.net]

CallRelated ==
    /\ ckan_client = "set"
    /\ ops < MaxOps
    /\ \E dataset_id \in SourceIdentifiers,
          relation_type \in {JStr("tags"), JStr("organization"), JStr("theme")},
          max_results \in {JNum(1), JNum(2)} :
        \E resps \in Answers(LAMBDA p : get_related_datasets(Ctx(cache, p), dataset_id,
                                                            relation_type, max_results),
                            RelatedResponses, MaxRequests) :
            Related(dataset_id, relation_type, max_results,
                    get_related_datasets(Ctx(cache, resps), dataset_id,
                                         relation_type, max_results))
    /\ ops' = ops + 1
    /\ UNCHANGED <<ckan_client, session, now, scope, inflight>>

NextRelated == Main \/ CallRelated

SpecRelated == Init /\ [][NextRelated]_vars

\* ------------------------------------------- the ckan_resource_preview tool,
\* invoked on the running server
Field1 == JObj([id |-> JStr("f1"), type |-> JStr("text")])

\* answers of datastore_search: records with their fields, records whose
\* field list holds something that is no field, and records without fields
Store1 ==
    JObj([records |-> JList(<<JObj([f1 |-> JStr("a")])>>), total |-> JNum(1),
          fields |-> JList(<<Field1>>)])
StoreOddFields ==
    JObj([records |-> JList(<<JObj([f1 |-> JStr("a")])>>), total |-> JNum(1),
          fields |-> JList(<<Field1, JStr("f2")>>)])
StoreNoFields == JObj([records |-> EmptyList])

PreviewResponses ==
    {Ok(Res1), Ok(Store1), Ok(StoreOddFields), Ok(StoreNoFields), Ok(None),
     Fail(ErrNotFound), ConnectionReset, DnsFailure, Timeout}

PreviewArguments ==
    {JObj([resource_id |-> JStr("R")]),
     JObj([resource_id |-> JStr("R"), generate_stats |-> JBool(FALSE)]),
     JObj([resource_id |-> JStr("R"), preview_rows |-> JNum(5)])}

CallPreview ==
    /\ ckan_client = "set"
    /\ ops < MaxOps
    /\ \E arguments \in PreviewArguments :
        \E resps \in Answers(LAMBDA p : handle_call_tool(Ctx(cache, p),
                                         "ckan_resource_preview", arguments),
                            PreviewResponses, MaxRequests) :
            Handle("ckan_resource_preview", arguments, resps)

NextPreview == Main \/ CallPreview

SpecPreview == Init /\ [][NextPreview]_vars

\* ------------------------------------------- the derived operations, called
\* on the running server's client
\* the call's effect on the state, and the record of it
Operated(op, args, r) ==
    /\ r.ctx.rest = <<>>
    /\ ~r.ctx.starved
    /\ cache' = r.ctx.cache
    /\ last' = [op |-> op, n |-> 1 - last.n, args |-> args, out |-> r.out,
                net |-> r.ctx.net]
    /\ ops' = ops + 1
    /\ UNCHANGED <<ckan_client, session, now, scope, inflight>>

\* the datasets package_show answers check_data_quality with: each field
\* absent, empty or populated, with and without one resource, and, all fields
\* populated, resource lists that are empty or hold resources whose format or
\* url is absent, null, empty or populated
QualityDatasets ==
    LET Opt(k, vs) == {<<>>} \cup {k :> v : v \in vs}
        Res(format, url) == JObj(("id" :> JStr("R")) @@ format @@ url)
        Csv == Res("format" :> JStr("csv"), "url" :> JStr("http://h/r1"))
        Pdf == Res("format" :> JStr("PDF"), "url" :> JStr("http://h/r2"))
        Doc == Res("format" :> JStr("docx"), "url" :> JStr("http://h/r3"))
        NoUrl == Res("format" :> JStr("CSV"), <<>>)
        NullUrl == Res("format" :> JStr("CSV"), "url" :> None)
        EmptyUrl == Res("format" :> JStr("json"), "url" :> JStr(""))
        NoFormat == Res(<<>>, "url" :> JStr("http://h/r4"))
        EmptyFormat == Res("format" :> JStr(""), "url" :> JStr("http://h/r5"))
        NullFormat == Res("format" :> None, "url" :> JStr("http://h/r6"))
        Fields == { title @@ notes @@ tags @@ organization
                    : title \in Opt("title", {JStr("T")}),
                      notes \in {"notes" :> JStr(""), "notes" :> JStr("N")},
                      tags \in Opt("tags", {EmptyList, JList(<<Tag1>>)}),
                      organization \in Opt("organization", {None, Org1}) }
        AllFields == [title |-> JStr("T"), notes |-> JStr("N"),
                      tags |-> JList(<<Tag1>>), organization |-> Org1]
        Varied ==
            { fields @@ resources
              : fields \in Fields, resources \in Opt("resources", {JList(<<Csv>>)}) }
            \cup { AllFields @@ ("resources" :> resources)
                   : resources \in {EmptyList, JList(<<Csv, Pdf, Doc>>),
                                    JList(<<Csv, NoUrl, NullUrl>>),
                                    JList(<<EmptyUrl, NoFormat, EmptyFormat>>),
                                    JList(<<Csv, NullFormat>>)} }
    IN  { JObj([id |-> JStr("X"), name |-> JStr("nx")] @@ varied @@ license)
          : varied \in Varied,
            license \in {<<>>, [license_id |-> JStr("cc-by"), author |-> JStr("A")]} }

\* the checks argument: absent, empty, each check, several, one twice, and a
\* name that is no check
QualityChecks ==
    {None, EmptyList,
     StrList(<<"completeness">>), StrList(<<"format_validation">>),
     StrList(<<"schema_compliance">>),
     StrList(<<"completeness", "format_validation">>),
     StrList(<<"format_validation", "schema_compliance">>),
     StrList(<<"schema_compliance", "format_validation", "completeness">>),
     StrList(<<"completeness", "completeness">>),
     StrList(<<"timeliness">>), StrList(<<"completeness", "timeliness">>)}

CallQuality ==
    /\ ckan_client = "set"
    /\ ops < MaxOps
    /\ \E checks \in QualityChecks :
         \E resps \in Answers(LAMBDA p : check_data_quality(Ctx(cache, p), JStr("X"),
                                                            checks, JNum(100)),
                              {Ok(d) : d \in QualityDatasets}
                                \cup {Ok(None), Fail(ErrNotFound), Timeout},
                              MaxRequests) :
            Operated("quality", [checks |-> checks],
                     check_data_quality(Ctx(cache, resps), JStr("X"), checks,
                                        JNum(100)))

\* the datasets package_show answers get_dataset_analytics with: with and
\* without a tracking summary, an organization, tags and resources
AnalyticsDatasets ==
    LET Opt(k, vs) == {<<>>} \cup {k :> v : v \in vs}
    IN  { JObj([id |-> JStr("X"), name |-> JStr("nx"),
                metadata_created |-> JStr("2024-01-01")]
               @@ tracking @@ organization @@ tags @@ resources)
          : tracking \in Opt("tracking_summary",
                             {None, JObj([total |-> JNum(7), recent |-> JNum(3)])}),
            organization \in Opt("organization", {None, Org1}),
            tags \in Opt("tags", {JList(<<Tag1>>)}),
            resources \in Opt("resources", {JList(<<Res1, Res2>>)}) }

\* the metrics argument: absent, empty, and lists of metric names
AnalyticsMetrics ==
    {None, EmptyList, StrList(<<"views">>), StrList(<<"downloads">>),
     StrList(<<"downloads", "views">>), StrList(<<"api_calls">>),
     StrList(<<"resource_count", "api_calls">>)}

CallAnalytics ==
    /\ ckan_client = "set"
    /\ ops < MaxOps
    /\ \E metrics \in AnalyticsMetrics :
         \E resps \in Answers(LAMBDA p : get_dataset_analytics(Ctx(cache, p), JStr("X"),
                                                               None, metrics),
                              {Ok(d) : d \in AnalyticsDatasets}
                                \cup {Fail(ErrNotFound), ConnectionReset},
                              MaxRequests) :
            Operated("analytics", [metrics |-> metrics],
                     get_dataset_analytics(Ctx(cache, resps), JStr("X"), None,
                                           metrics))

\* the arguments of export_metadata: one id, two ids in either order and one
\* id twice; the three formats; with and without resources
ExportArguments ==
    [dataset_ids : {JList(<<JStr("X")>>), JList(<<JStr("X"), JStr("Y")>>),
                    JList(<<JStr("Y"), JStr("X")>>), JList(<<JStr("X"), JStr("X")>>)},
     export_format : {JStr("dcat"), JStr("schema_org"), JStr("ckan_native")},
     include_resources : {JBool(TRUE), JBool(FALSE)}]

\* the datasets package_show answers export_metadata with: two resources,
\* one resource, none, and a dataset that belongs to no organization
ExportDatasets ==
    {DatasetFull,
     JObj([id |-> JStr("Y"), name |-> JStr("ny"), title |-> JStr("U"),
           organization |-> Org1, tags |-> EmptyList, resources |-> JList(<<Res2>>)]),
     DatasetBare, DatasetNullOrg}

CallExport ==
    /\ ckan_client = "set"
    /\ ops < MaxOps
    /\ \E args \in ExportArguments :
         \E resps \in Answers(LAMBDA p : export_metadata(Ctx(cache, p), args.dataset_ids,
                                           args.export_format, args.include_resources),
                              {Ok(d) : d \in ExportDatasets}
                                \cup {Fail(ErrNotFound), ConnectionReset},
                              MaxRequests) :
            Operated("export", args,
                     export_metadata(Ctx(cache, resps), args.dataset_ids,
                                     args.export_format, args.include_resources))

NextOps == Main \/ CallQuality \/ CallAnalytics \/ CallExport

SpecOps == Init /\ [][NextOps]_vars

\* ------------------------------------------- the life of a client: a scope
\* is entered, requests are made before, in and after it, and it is left
NextSession == Main \/ AEnter \/ AExit \/ CallMakeRequest \/ CallPreview

SpecSession == Init /\ [][NextSession]_vars

\* ------------------------------------------- the explorer's search, made
\* in its async with block: with and without an organization, with tags
\* given as one string, some with spaces around the commas
CallSearch ==
    /\ scope = "client"
    /\ ops < MaxOps
    /\ \E args \in [query : {JStr("*:*"), JStr("water")},
                     organization : {None, JStr(""), JStr("x")},
                     tags : {None, JStr(""), JStr("a"), JStr("a,b"), JStr(" a , b"),
                             JStr("a b,c "), JStr("a,,b")}] :
         \E resps \in Answers(LAMBDA p : search_packages(Ctx(cache, p), args.query,
                                           JNum(10), args.organization, args.tags),
                              {Found(<<Other1>>), Fail(ErrNotFound), ConnectionReset},
                              MaxRequests) :
            Operated("search", args,
                     search_packages(Ctx(cache, resps), args.query, JNum(10),
                                     args.organization, args.tags))

NextSearch == AEnter \/ CallSearch

SpecSearch == Init /\ [][NextSearch]_vars

\* ------------------------------------------- invocations that interleave on
\* the one client of the server.  A coroutine gives way only at an await:
\* in these tools, while its network call is in flight (lines 111-112).
Invocations == 1..MaxInvocations

\* handle_call_tool is called and runs up to its first await.  The request
\* it issues is the same whatever response will come; hung tells whether
\* the network call never completes.
Invoke(i) ==
    /\ ckan_client = "set"
    /\ inflight[i].pc = "idle"
    /\ \E call \in {<<"ckan_status_show", None>>,
                     <<"ckan_package_show", JObj([id |-> JStr("X")])>>},
          hung \in BOOLEAN :
         LET tried == handle_call_tool(Ctx(cache, <<Timeout>>), call[1], call[2])
         IN  inflight' = [inflight EXCEPT ![i] =
                 IF tried.ctx.net = <<>>
                 THEN [pc |-> "returned", name |-> call[1],
                       arguments |-> call[2], envelope |-> tried.envelope,
                       net |-> <<>>]
                 ELSE [pc |-> "waiting", name |-> call[1],
                       arguments |-> call[2], req |-> tried.ctx.net[1].req,
                       hung |-> hung]]
    /\ UNCHANGED <<ckan_client, session, cache, now, ops, last, scope>>

\* The network call of invocation i completes with resp: the coroutine
\* resumes in the try block of _make_request, on the cache as it is now, and
\* handle_call_tool returns the envelope
Completed(i, resp) ==
    LET w == inflight[i]
        r == Envelope(OnResponse(Ctx(cache, <<resp>>), w.req.method,
                                 w.req.endpoint, w.req.data, TRUE, resp),
                      w.name, w.arguments)
    IN  /\ cache' = r.ctx.cache
        /\ inflight' = [inflight EXCEPT ![i] =
               [pc |-> "returned", name |-> w.name, arguments |-> w.arguments,
                envelope |-> r.envelope, net |-> r.ctx.net]]
        /\ last' = [op |-> "race", n |-> 0,
                    done |-> Append(IF last.op = "race" THEN last.done ELSE <<>>,
                                    [i |-> i, req |-> w.req, resp |-> resp])]
        /\ UNCHANGED <<ckan_client, session, now, ops, scope>>

\* what the portal may answer to a call in flight
RaceResponses ==
    <<Ok(JObj([name |-> JStr("a")])), Ok(JObj([name |-> JStr("b")])),
      Fail(ErrNotFound), ConnectionReset>>

\* Complete were the responses handed out in the order of the invocations,
\* one waiting behind the other: C27 does not hold of it
CompleteInTurn(i) ==
    /\ inflight[i].pc = "waiting"
    /\ ~inflight[i].hung
    /\ \A j \in 1..(i - 1) : inflight[j].pc # "waiting"
    /\ \E k \in 1..Len(RaceResponses) : Completed(i, RaceResponses[k])

Complete(i) ==
    /\ inflight[i].pc = "waiting"
    /\ ~inflight[i].hung
    /\ \E k \in 1..Len(RaceResponses) : Completed(i, RaceResponses[k])

NextRace == Main \/ \E i \in Invocations : Invoke(i) \/ Complete(i)

SpecRace == Init /\ [][NextRace]_vars

\* a network call that completes is a coroutine the event loop resumes
SpecRaceFair == SpecRace /\ \A i \in Invocations : WF_vars(Complete(i))

\* ------------------------------------------------- tool calls that fail:
\* every tool, and two names that are no tool, meeting an error of the
\* portal or of the transport whose text holds none, one or several of the
\* words the except clause looks for
FailureTexts ==
    {"Not Found", "Permission denied", "Unauthorized", "Network is down",
     "Invalid value", "Missing parameter", "Busy",
     "Not found: no permission", "Unauthorized connection",
     "Invalid network", "Parameter not found", "Connection not found"}

CallFailing ==
    /\ ops < MaxOps
    /\ \E name \in KnownTools \cup {"connection_test", "find_parameter"},
          resps \in {<<>>}
                    \cup {<<Fail(JObj([message |-> JStr(t)]))>> : t \in FailureTexts}
                    \cup {<<ClientError(t)>> : t \in FailureTexts} :
         Handle(name, ValidArguments(name), resps)

NextErrors == Main \/ CallFailing

SpecErrors == Init /\ [][NextErrors]_vars

\* ------------------------------------------------ faceted_search, called
\* with filters, spatial inputs and date ranges that are absent, empty,
\* partial and whole
CallFaceted ==
    /\ ckan_client = "set"
    /\ ops < MaxOps
    /\ \E args \in
           [filters : {None, EmptyDict, JObj([organization |-> JStr("x")]),
                       JObj([organization |-> JStr("x"), tags |-> JStr("t")])},
            spatial_query :
                LET bbox == JList(<<JNum(1), JNum(2), JNum(3), JNum(4)>>)
                    point == JList(<<JNum(5), JNum(6)>>)
                IN  {None, EmptyDict, JObj([bbox |-> bbox]),
                     JObj([bbox |-> bbox, point |-> point, radius |-> JNum(7)]),
                     JObj([point |-> point, radius |-> JNum(7)]),
                     JObj([point |-> point]), JObj([radius |-> JNum(7)])},
            date_range : {None, EmptyDict, JObj([start |-> JStr("2020")]),
                          JObj([end |-> JStr("2021"), field |-> JStr("modified")]),
                          JObj([start |-> JStr("2020"), end |-> JStr("2021"),
                                field |-> JStr("modified")])}],
          resps \in {<<Found(<<Other1>>)>>, <<ConnectionReset>>} :
         Operated("faceted", args,
                  faceted_search(Ctx(cache, resps), JStr("*:*"), None, args.filters,
                                 args.spatial_query, args.date_range))

NextFaceted == Main \/ CallFaceted

SpecFaceted == Init /\ [][NextFaceted]_vars

\* ------------------------------------------------ check_data_quality,
\* called with several sample sizes on datasets of none, two and three
\* resources
SampleSizes == {JNum(0), JNum(1), JNum(100), None}

CallSampled ==
    /\ ckan_client = "set"
    /\ ops < MaxOps
    /\ \E args \in [checks : {None, EmptyList, StrList(<<"format_validation">>),
                               StrList(<<"completeness", "schema_compliance">>)},
                     sample_size : SampleSizes] :
         \E resps \in Answers(LAMBDA p : check_data_quality(Ctx(cache, p), JStr("X"),
                                              args.checks, args.sample_size),
                              {Ok(d) : d \in {q \in QualityDatasets :
                                                /\ "license_id" \in DOMAIN q.o
                                                /\ "resources" \in DOMAIN q.o
                                                /\ Len(q.o.resources.l) # 1}}
                                \cup {Fail(ErrNotFound), ConnectionReset},
                              MaxRequests) :
            Operated("sampled", args,
                     check_data_quality(Ctx(cache, resps), JStr("X"), args.checks,
                                        args.sample_size))

NextSample == Main \/ CallSampled

SpecSample == Init /\ [][NextSample]_vars

\* ------------------------------------------------ successive tool calls on
\* the one client, the clock moving between them: the dataset X read by
\* ckan_package_show and by the derived operations, and the preview of R
SharedTools ==
    {"ckan_package_show", "ckan_data_quality_check", "ckan_dataset_analytics",
     "ckan_related_datasets", "ckan_resource_preview"}

CallShared ==
    /\ ckan_client = "set"
    /\ ops < MaxInvocations
    /\ \E name \in SharedTools :
         \E resps \in Answers(LAMBDA p : handle_call_tool(Ctx(cache, p), name,
                                                          ValidArguments(name)),
                              {Ok(JObj([DatasetFull.o EXCEPT
                                          !.resources = JList(<<Res1>>)])),
                               Ok(Store1), Ok(None), Fail(ErrNotFound)},
                              MaxRequests) :
            Handle(name, ValidArguments(name), resps)

NextShared == Main \/ Tick \/ CallShared

SpecShared == Init /\ [][NextShared]_vars

\* ------------------------------------------------------------------ claims

\* The step is a direct request, a GET made with use_cache
CacheableGetStep ==
    /\ last'.op = "request"
    /\ last'.n # last.n
    /\ last'.req.method = "GET"
    /\ last'.use_cache

EntryFor(req) == CacheGet(cache, _get_cache_key(req.method, req.endpoint, req.data))

\* C1: a GET made with use_cache, when the cache holds for that request an
\* entry stored less than cache_ttl seconds ago, returns exactly the payload of
\* that entry, issues no network request and leaves the cache as it is,
\* whatever the portal would answer now.
C1_HitWithinTtl ==
    [][CacheableGetStep =>
         LET entry == EntryFor(last'.req)
         IN  (entry # None /\ now - entry.timestamp < cache_ttl) =>
                /\ last'.out = Ret(entry.data)
                /\ last'.net = <<>>
                /\ cache' = cache]_vars

\* A hit on an entry one second short of the TTL
C1_Witness ==
    /\ last.op = "request"
    /\ last.req.method = "GET" /\ last.use_cache
    /\ last.age = cache_ttl - 1
    /\ last.net = <<>>
    /\ last.out.ok

\* C2: a GET made with use_cache whose entry has age >= cache_ttl (age ==
\* cache_ttl included) is never served from the cache: on an open session it
\* issues one network request, and on success the entry is replaced by the
\* new payload with the time of the call; without an open session it fails.
C2_StaleRefetched ==
    [][CacheableGetStep =>
         LET req == last'.req
             entry == EntryFor(req)
             key == _get_cache_key(req.method, req.endpoint, req.data)
         IN  (entry # None /\ now - entry.timestamp >= cache_ttl) =>
                /\ session = "open" =>
                     /\ Len(last'.net) = 1
                     /\ last'.net[1].req = req
                     /\ last'.out.ok =>
                          /\ last'.net[1].resp = Ok(last'.out.val)
                          /\ cache'[key] = [timestamp |-> now, data |-> last'.out.val]
                /\ session # "open" => ~last'.out.ok]_vars

\* A refetch at the boundary age, which replaced the entry
C2_Witness ==
    /\ last.op = "request"
    /\ last.req.method = "GET" /\ last.use_cache
    /\ last.age = cache_ttl
    /\ Len(last.net) = 1
    /\ last.out.ok
    /\ EntryFor(last.req) = [timestamp |-> now, data |-> last.out.val]

\* --- the envelope of a tool invocation (specification Spec)

\* the latest step was an invocation of handle_call_tool
ToolCalled == last.op = "tool"

\* the last network call of the invocation failed in the transport
TransportFailed ==
    /\ Len(last.net) >= 1
    /\ last.net[Len(last.net)].resp.k \in {"client_error", "other_error"}

\* C3: every invocation of handle_call_tool, for a known or unknown tool,
\* an absent, empty or valid argument map, and whatever the operation or the
\* request executor raised, returns an envelope with a boolean success and the
\* metadata; whenever the operation raised, the envelope has success = false
\* and an error whose type is one of the five kinds of MCPErrorType.
C3_FailureIsEnvelope ==
    ToolCalled =>
        LET e == last.envelope
        IN  /\ {"success", "metadata"} \subseteq DOMAIN e
            /\ e.success \in BOOLEAN
            /\ last.raised => e.success = FALSE
            /\ e.success = FALSE =>
                 /\ "error" \in DOMAIN e
                 /\ e.error.type \in MCPErrorType

\* An unknown tool, called without an argument map, ended in a failure envelope
C3_Witness ==
    /\ ToolCalled
    /\ last.raised
    /\ last.name \notin KnownTools
    /\ last.arguments = None
    /\ last.envelope.success = FALSE
    /\ last.envelope.error.type = CKAN_API_ERROR

\* C4: every failure envelope of handle_call_tool carries the four error
\* fields, the type, the message, the tool name and the arguments of the
\* invocation, on every failure path, the one of the client that was never
\* initialized included.
C4_FailureCarriesFourFields ==
    (ToolCalled /\ ~last.envelope.success) =>
        LET error == last.envelope.error
        IN  /\ {"type", "message", "tool", "arguments"} \subseteq DOMAIN error
            /\ error.tool = last.name
            /\ error.arguments = last.arguments

\* C5: in every envelope of handle_call_tool the data field is present if
\* and only if success is true, and the error field if and only if success is
\* false, whatever the operation returned (null, [] and {} included).
C5_DataIffSuccess ==
    ToolCalled =>
        LET e == last.envelope
        IN  /\ ("data" \in DOMAIN e) <=> e.success
            /\ ("error" \in DOMAIN e) <=> ~e.success

\* C6: when a network call of the operation fails in the transport (timeout,
\* DNS failure, connection reset) and the invocation fails, the envelope's
\* error type is network_error.
C6_TransportIsNetworkError ==
    (ToolCalled /\ TransportFailed /\ last.raised) =>
        last.envelope.error.type = NETWORK_ERROR

\* the invocation lacks the argument its tool's schema requires
RequiredMissing ==
    /\ last.name \in DOMAIN RequiredArgument
    /\ \/ last.arguments = None
       \/ RequiredArgument[last.name] \notin DOMAIN last.arguments.o

\* C7: a tool whose schema declares a required argument, invoked on the
\* initialized client without that argument or without an argument map,
\* yields a failure envelope of type invalid_parameters and issues no network
\* request.
C7_MissingArgumentIsInvalidParams ==
    (ToolCalled /\ last.initialized /\ RequiredMissing) =>
        /\ last.envelope.success = FALSE
        /\ last.envelope.error.type = INVALID_PARAMS
        /\ last.net = <<>>

\* --- get_related_datasets (specification SpecRelated)

RelatedCalled == last.op = "related"

\* the k-th network call of the latest step was answered with success
Succeeded(k) ==
    /\ Len(last.net) >= k
    /\ last.net[k].resp.k = "json"
    /\ last.net[k].resp.body.t = "obj"
    /\ "success" \in DOMAIN last.net[k].resp.body.o
    /\ Truthy(last.net[k].resp.body.o.success)

\* the result of the k-th network call, answered with success
ResultOf(k) == DictGet(last.net[k].resp.body, "result", EmptyDict).val

\* the source dataset was fetched (the first call) and is a record
SourceFetched == Succeeded(1) /\ ResultOf(1).t = "obj"

NoOrganization(source) ==
    \/ "organization" \notin DOMAIN source.o
    \/ source.o.organization = None
    \/ /\ source.o.organization.t = "obj"
       /\ "id" \notin DOMAIN source.o.organization.o

NoTags(source) == "tags" \notin DOMAIN source.o \/ source.o.tags = EmptyList

NoGroups(source) == "groups" \notin DOMAIN source.o \/ source.o.groups = EmptyList

\* C8: get_related_datasets by organization on a source dataset without an
\* organization (the field absent, null, or without an id) returns the empty
\* list after exactly one network request, the fetch of the source; likewise
\* by tags on a source without tags and by theme on a source without groups.
C8_NothingToRelateIsEmpty ==
    (/\ RelatedCalled
     /\ SourceFetched
     /\ \/ last.relation_type = JStr("organization") /\ NoOrganization(ResultOf(1))
        \/ last.relation_type = JStr("tags") /\ NoTags(ResultOf(1))
        \/ last.relation_type = JStr("theme") /\ NoGroups(ResultOf(1)))
    => /\ last.out = Ret(EmptyList)
       /\ Len(last.net) = 1

\* a is b with some elements left out
RECURSIVE IsSubseq(_, _)
IsSubseq(a, b) ==
    IF Len(a) = 0 THEN TRUE
    ELSE IF Len(b) = 0 THEN FALSE
    ELSE IF Head(a) = Head(b) THEN IsSubseq(Tail(a), Tail(b))
    ELSE IsSubseq(a, Tail(b))

\* the rows the portal search returned, if the call searched
SearchedRows ==
    IF Succeeded(2) /\ ResultOf(2).t = "obj" /\ "results" \in DOMAIN ResultOf(2).o
    THEN ResultOf(2).o.results.l
    ELSE <<>>

\* C9: the list get_related_datasets returns never holds the source dataset,
\* whether the caller named it by its id or by its name, has at most
\* max_results elements, and keeps the order of the portal's search.
C9_SourceNeverRelated ==
    (RelatedCalled /\ SourceFetched /\ last.out.ok) =>
        LET related == last.out.val.l
        IN  /\ \A i \in 1..Len(related) : related[i] # ResultOf(1)
            /\ Len(related) <= last.max_results.n
            /\ IsSubseq(related, SearchedRows)

\* --- ckan_resource_preview (specification SpecPreview)

\* resource_show answered with a resource record
ShownResource == Succeeded(1) /\ ResultOf(1).t = "obj"

\* datastore_search was called and failed, by a portal error or in the transport
SearchFailed == Len(last.net) = 2 /\ ~Succeeded(2)

\* the preview degraded: no preview_data, and the note
Degraded(e) ==
    /\ e.success
    /\ "data" \in DOMAIN e
    /\ e.data.o.preview_data = None
    /\ e.data.o.note = DataStoreNote

\* C10 as stated: when datastore_search fails after resource_show succeeded
\* the invocation succeeds with a null preview_data and the note, and the
\* invocation fails only if resource_show failed.
C10_OnlyShowFails ==
    ToolCalled =>
        /\ (Succeeded(1) /\ SearchFailed) => Degraded(last.envelope)
        /\ ~last.envelope.success => ~Succeeded(1)

\* C10: when datastore_search fails, by a portal error or in the transport,
\* after resource_show returned a resource record, the invocation succeeds
\* with a null preview_data and the note; the invocation fails only if
\* resource_show failed or returned something that is not a record.
C10_SearchFailureDegrades ==
    ToolCalled =>
        /\ (ShownResource /\ SearchFailed) => Degraded(last.envelope)
        /\ ~last.envelope.success => ~ShownResource

\* The datastore query timed out after resource_show returned the resource
C10_Witness ==
    /\ ToolCalled
    /\ ShownResource
    /\ Len(last.net) = 2
    /\ last.net[2].resp = Timeout
    /\ Degraded(last.envelope)

\* --- no retry, no partial result (specification Spec)

\* the k-th network call is the optional datastore query of the preview
OptionalQuery(k) ==
    /\ last.name = "ckan_resource_preview"
    /\ SubSeq(last.net[k].req.endpoint, 1, 17) = "datastore_search?"

\* C11: once a network call of an invocation has failed, the invocation
\* issues no further network request (the failed call is its last one, so
\* nothing is retried), and unless that call is the optional datastore query
\* of the preview the invocation fails and returns no data, not even the part
\* built before the failure.
C11_FailedCallEndsOperation ==
    ToolCalled =>
        \A k \in 1..Len(last.net) :
            ~Succeeded(k) =>
                /\ k = Len(last.net)
                /\ ~OptionalQuery(k) =>
                      /\ last.envelope.success = FALSE
                      /\ "data" \notin DOMAIN last.envelope

\* The exporter fetched its first dataset, failed on the second, and returned
\* no bundle
C11_Witness ==
    /\ ToolCalled
    /\ last.name = "ckan_metadata_exporter"
    /\ Len(last.net) = 2
    /\ Succeeded(1)
    /\ ~Succeeded(2)
    /\ last.net[2].req.endpoint = "package_show?id=Y"
    /\ last.envelope.success = FALSE
    /\ "data" \notin DOMAIN last.envelope

\* --- check_data_quality (specification SpecOps)

\* the latest step was a call of check_data_quality that fetched a dataset
QualityCalled == last.op = "quality" /\ Succeeded(1) /\ ResultOf(1).t = "obj"

\* the check named c was asked for
CheckAsked(c) ==
    IF last.args.checks = None
    THEN c \in {"completeness", "format_validation", "schema_compliance"}
    ELSE \E i \in 1..Len(last.args.checks.l) : last.args.checks.l[i] = JStr(c)

\* the resources of the fetched dataset
FetchedResources ==
    IF "resources" \in DOMAIN ResultOf(1).o THEN ResultOf(1).o.resources.l ELSE <<>>

\* the resource has a format of the allow-list, in any case, and a url
WellFormed(resource) ==
    /\ "format" \in DOMAIN resource.o
    /\ resource.o.format.t = "str"
    /\ upper(resource.o.format.s) \in {"CSV", "JSON", "XML", "XLS", "XLSX", "PDF", "TXT"}
    /\ "url" \in DOMAIN resource.o
    /\ resource.o.url \notin {None, JStr("")}

\* the number v is the quotient a / b
IsQuotient(v, a, b) == NumOf(v) * b = a * DenOf(v)

\* C12: check_data_quality with format_validation asked for never fails on
\* a fetched dataset, whatever its resources (none, or resources whose format
\* or url is absent, null or empty), and the score of the check is 0 without
\* resources and otherwise the mean, over all resources, of 100 for a resource
\* with an allowed format and a url and 0 for any other.
C12_FormatValidationTotal ==
    (QualityCalled /\ CheckAsked("format_validation")) =>
        /\ last.out.ok
        /\ LET score == last.out.val.o.checks.o.format_validation.o.score
                good == {i \in 1..Len(FetchedResources) : WellFormed(FetchedResources[i])}
            IN  IF Len(FetchedResources) = 0 THEN score = JNum(0)
                ELSE IsQuotient(score, 100 * Cardinality(good), Len(FetchedResources))

\* the checks there are
KnownChecks == {"completeness", "format_validation", "schema_compliance"}

\* the sum of the scores the report gives for the checks of the set cs, as a
\* pair of numerator and denominator
RECURSIVE ScoreSum(_, _)
ScoreSum(report, cs) ==
    IF cs = {} THEN <<0, 1>>
    ELSE LET c == CHOOSE x \in cs : TRUE
             rest == ScoreSum(report, cs \ {c})
             score == report.o.checks.o[c].o.score
         IN  <<NumOf(score) * rest[2] + rest[1] * DenOf(score),
               DenOf(score) * rest[2]>>

\* the number v lies in 0..100
IsPercentage(v) == NumOf(v) >= 0 /\ NumOf(v) <= 100 * DenOf(v)

\* C13: in every report of check_data_quality the checks map has an entry
\* for a check exactly when that check was asked for and is one of the three
\* there are; overall_score is the arithmetic mean of the scores of these
\* entries, each counted once, and 0 when there is none; every check score and
\* the overall score lie in 0..100.
C13_OverallIsMeanOfRequested ==
    (QualityCalled /\ last.out.ok) =>
        LET report == last.out.val
            asked == {c \in KnownChecks : CheckAsked(c)}
            total == ScoreSum(report, asked)
        IN  /\ DOMAIN report.o.checks.o = asked
            /\ IF asked = {} THEN report.o.overall_score = JNum(0)
               ELSE IsQuotient(report.o.overall_score, total[1],
                               total[2] * Cardinality(asked))
            /\ IsPercentage(report.o.overall_score)
            /\ \A c \in asked : IsPercentage(report.o.checks.o[c].o.score)

\* A report of two checks with different scores, one asked for last: the
\* overall score is strictly between them
C13_Witness ==
    /\ QualityCalled
    /\ last.out.ok
    /\ last.args.checks = StrList(<<"format_validation", "schema_compliance">>)
    /\ last.out.val.o.checks.o.format_validation.o.score = JFloat(100, 3)
    /\ last.out.val.o.checks.o.schema_compliance.o.score = JFloat(40, 1)
    /\ last.out.val.o.overall_score = JFloat(110, 3)

\* the field of the fetched dataset is there and is not empty
Populated(field) ==
    /\ field \in DOMAIN ResultOf(1).o
    /\ ResultOf(1).o[field] \notin {None, JStr(""), EmptyList, EmptyDict}

\* C14: the completeness score is 100 times the number of the five fields
\* title, notes, tags, organization and resources that are populated, over 5:
\* one of 0, 20, 40, 60, 80, 100, and 40 for a dataset with only its title and
\* its resources populated.
C14_CompletenessCountsPopulated ==
    (QualityCalled /\ last.out.ok /\ CheckAsked("completeness")) =>
        LET score == last.out.val.o.checks.o.completeness.o.score
            populated == {f \in {"title", "notes", "tags", "organization", "resources"} :
                            Populated(f)}
        IN  /\ IsQuotient(score, 100 * Cardinality(populated), 5)
            /\ \E p \in 0..5 : score = JFloat(20 * p, 1)
            /\ populated = {"title", "resources"} => score = JFloat(40, 1)

\* A dataset with a title and resources, empty notes, no tags and a null
\* organization scored 40
C14_Witness ==
    /\ QualityCalled
    /\ last.out.ok
    /\ last.args.checks = StrList(<<"completeness">>)
    /\ Populated("title") /\ Populated("resources")
    /\ ResultOf(1).o.notes = JStr("")
    /\ "tags" \in DOMAIN ResultOf(1).o /\ ResultOf(1).o.tags = EmptyList
    /\ "organization" \in DOMAIN ResultOf(1).o /\ ResultOf(1).o.organization = None
    /\ last.out.val.o.checks.o.completeness.o.score = JFloat(40, 1)

\* --- get_dataset_analytics (specification SpecOps)

\* the latest step was a call of get_dataset_analytics, for one dataset, that
\* returned its report
AnalyticsReported ==
    last.op = "analytics" /\ Succeeded(1) /\ ResultOf(1).t = "obj" /\ last.out.ok

\* the metric named m was asked for
MetricAsked(m) ==
    IF last.args.metrics = None
    THEN m \in {"views", "downloads", "api_calls", "resource_count"}
    ELSE \E i \in 1..Len(last.args.metrics.l) : last.args.metrics.l[i] = JStr(m)

\* the fetched dataset has a tracking summary
Tracked ==
    /\ "tracking_summary" \in DOMAIN ResultOf(1).o
    /\ ResultOf(1).o.tracking_summary.t = "obj"

\* C15: in the report of get_dataset_analytics for one dataset, views
\* (downloads) is present exactly when it was asked for and the dataset has a
\* tracking summary, and is then the total (recent) value of that summary;
\* without a tracking summary the metric is absent; api_calls is never
\* present; created, modified, tags_count and organization are always present.
C15_TrackingMetricsOnlyWhenTracked ==
    AnalyticsReported =>
        LET metrics == last.out.val.o.metrics.o
        IN  /\ "views" \in DOMAIN metrics <=> (MetricAsked("views") /\ Tracked)
            /\ "views" \in DOMAIN metrics =>
                  metrics.views = ResultOf(1).o.tracking_summary.o.total
            /\ "downloads" \in DOMAIN metrics <=> (MetricAsked("downloads") /\ Tracked)
            /\ "downloads" \in DOMAIN metrics =>
                  metrics.downloads = ResultOf(1).o.tracking_summary.o.recent
            /\ "api_calls" \notin DOMAIN metrics
            /\ {"created", "modified", "tags_count", "organization"}
                  \subseteq DOMAIN metrics

\* --- export_metadata (specification SpecOps)

\* the latest step was a call of export_metadata in the format dcat or
\* schema_org, and every fetch it made returned a dataset
ExportFetchedAll ==
    /\ last.op = "export"
    /\ last.args.export_format \in {JStr("dcat"), JStr("schema_org")}
    /\ Len(last.net) = Cardinality({last.args.dataset_ids.l[i] :
                                      i \in 1..Len(last.args.dataset_ids.l)})
    /\ \A k \in 1..Len(last.net) : Succeeded(k) /\ ResultOf(k).t = "obj"

\* the dataset fetched for the i-th requested id: an id asked for again is
\* served from the cache, so the fetches are those of the distinct ids, in
\* the order of their first occurrence
FetchedFor(i) ==
    LET ids == last.args.dataset_ids.l
        first == CHOOSE j \in 1..i :
                   ids[j] = ids[i] /\ \A h \in 1..(j - 1) : ids[h] # ids[i]
    IN  ResultOf(Cardinality({ids[h] : h \in 1..first}))

\* the keys of the format under which an entry holds the identifier, the
\* distributions, and the name of a distribution
ExportKeys ==
    IF last.args.export_format = JStr("dcat")
    THEN [identifier |-> "dct:identifier", distribution |-> "dcat:distribution",
          name |-> "dct:title"]
    ELSE [identifier |-> "identifier", distribution |-> "distribution",
          name |-> "name"]

\* C16: export_metadata in the format dcat or schema_org, when every fetch
\* succeeds, returns a bundle with one entry per requested id, in request
\* order; with include_resources each entry has a distribution list with one
\* element per resource of its dataset, in resource order, and without it no
\* distribution field.
C16_OneEntryPerDataset ==
    ExportFetchedAll =>
        /\ last.out.ok
        /\ LET ids == last.args.dataset_ids.l
               datasets == last.out.val.o.datasets.l
           IN  /\ Len(datasets) = Len(ids)
               /\ \A i \in 1..Len(ids) :
                     LET entry == datasets[i].o
                         resources ==
                             DictGet(FetchedFor(i), "resources", EmptyList).val.l
                     IN  /\ entry[ExportKeys.identifier] = Field(FetchedFor(i), "id")
                         /\ IF Truthy(last.args.include_resources)
                            THEN /\ ExportKeys.distribution \in DOMAIN entry
                                 /\ LET distribution == entry[ExportKeys.distribution].l
                                    IN  /\ Len(distribution) = Len(resources)
                                        /\ \A j \in 1..Len(resources) :
                                              distribution[j].o[ExportKeys.name]
                                                = Field(resources[j], "name")
                            ELSE ExportKeys.distribution \notin DOMAIN entry

\* --- the session (specification SpecSession)

\* the step is a top-level call that issued a network request
IssuedRequest == last' # last /\ last'.net # <<>>

\* C17: the session is opened once, when its scope (the server's main, the
\* explorer's or the demo's async with block) is entered, and is closed by
\* the step that leaves the scope, whether the calls made in it succeeded or
\* failed; a network request is issued only while the scope runs and its
\* session is open, never before it is opened or after it is closed.
C17_SessionScoped ==
    [][/\ (session' = "open" /\ session # "open") =>
            (session = "none" /\ scope = "none" /\ scope' \in {"main", "client"})
       /\ (scope \in {"main", "client"} /\ scope' \notin {"main", "client"}) =>
            (scope' = "left" /\ session' = "closed")
       /\ (scope' = scope /\ scope \in {"main", "client"}) => session' = "open"
       /\ scope' = "left" => session' = "closed"
       /\ IssuedRequest => (session = "open" /\ scope \in {"main", "client"})]_vars

\* A scope left after a request made in it failed in the transport: the
\* session is closed
C17_Witness ==
    /\ scope = "left"
    /\ session = "closed"
    /\ last.op = "request"
    /\ ~last.out.ok
    /\ Len(last.net) = 1
    /\ last.net[1].resp = ConnectionReset

\* --- the cache key (specification SpecKeys)

\* C18: two requests that differ in their method, their endpoint or their
\* body (a body that is absent and one that is the empty map differ) never
\* have the same cache key, and two requests that are the same always have.
C18_KeysNeverShared ==
    last.op = "key" => ((last.t1 = last.t2) <=> (last.key1 = last.key2))

\* --- requests that bypass the cache (specification SpecCache)

\* The step is a direct request that is not a GET or is made without use_cache
UncachedStep ==
    /\ last'.op = "request"
    /\ last'.n # last.n
    /\ (last'.req.method # "GET" \/ ~last'.use_cache)

\* C20: a request that is not a GET, or that is made with use_cache false,
\* leaves the cache as it is whether it succeeds or fails, and never answers
\* from the cache: on an open session it issues its network request, even
\* when the cache holds a valid entry for the same request, and what it
\* returns is what the portal answered; without an open session it fails.
C20_UncachedBypassesCache ==
    [][UncachedStep =>
         /\ cache' = cache
         /\ session = "open" =>
              /\ Len(last'.net) = 1
              /\ last'.net[1].req = last'.req
              /\ last'.out.ok => last'.net[1].resp = Ok(last'.out.val)
         /\ session # "open" => ~last'.out.ok]_vars

\* A GET made without use_cache while a valid entry was there: it went to
\* the network, returned the new payload, and the entry still holds the old
C20_Witness ==
    /\ last.op = "request"
    /\ last.req.method = "GET" /\ ~last.use_cache
    /\ last.age >= 0 /\ last.age < cache_ttl
    /\ Len(last.net) = 1
    /\ last.out.ok
    /\ EntryFor(last.req) # None
    /\ EntryFor(last.req).data # last.out.val

\* --- the explorer's search (specification SpecSearch)

\* the tags a tags argument names, trimmed, in order
TagsNamed(tags) ==
    CASE tags = JStr("a") -> <<"a">>
      [] tags = JStr("a,b") -> <<"a", "b">>
      [] tags = JStr(" a , b") -> <<"a", "b">>
      [] tags = JStr("a b,c ") -> <<"a b", "c">>
      [] tags = JStr("a,,b") -> <<"a", "", "b">>
      [] OTHER -> <<>>

\* C19: the explorer's search sends as fq the organization pair, when an
\* organization is given, followed by one tags pair per comma-separated tag,
\* trimmed, all joined by " AND "; with neither an organization nor tags it
\* sends no fq parameter.
C19_FilterClause ==
    (last.op = "search" /\ Len(last.net) = 1) =>
        LET named == TagsNamed(last.args.tags)
            pairs == (IF last.args.organization = JStr("x")
                      THEN <<"organization:x">> ELSE <<>>)
                     \o [i \in 1..Len(named) |-> "tags:" \o named[i]]
            sent == last.net[1].req.endpoint
            head == "package_search?q=" \o last.args.query.s \o "&rows=10"
        IN  IF Len(pairs) = 0 THEN sent = head
            ELSE sent = head \o "&fq=" \o JoinSeq(pairs, " AND ")

\* The search for organization x and the tags " a , b" sent the three pairs
C19_Witness ==
    /\ last.op = "search"
    /\ last.args.organization = JStr("x")
    /\ last.args.tags = JStr(" a , b")
    /\ Len(last.net) = 1
    /\ last.net[1].req.endpoint =
         "package_search?q=*:*&rows=10&fq=organization:x AND tags:a AND tags:b"

\* --- failures and the cache (specification SpecCache)

\* The step is a direct request
RequestStep ==
    /\ last'.op = "request"
    /\ last'.n # last.n

\* C21: a request that fails (the portal answers success false, the
\* transport fails or the response cannot be decoded) leaves the cache
\* exactly as it was, a stale entry of the same key included; the cache
\* changes only by a successful GET made with use_cache that went to the
\* network, and then only in the entry of that request's key.
C21_FailureLeavesCache ==
    [][/\ (RequestStep /\ ~last'.out.ok) => cache' = cache
       /\ cache' # cache =>
            /\ RequestStep
            /\ last'.out.ok
            /\ last'.req.method = "GET" /\ last'.use_cache
            /\ Len(last'.net) = 1
            /\ cache' = (_get_cache_key(last'.req.method, last'.req.endpoint,
                                        last'.req.data)
                           :> [timestamp |-> now, data |-> last'.out.val])
                         @@ cache]_vars

\* A refetch of a stale entry met a response that could not be read: the
\* call failed and the stale entry is still there
C21_Witness ==
    /\ last.op = "request"
    /\ last.req.method = "GET" /\ last.use_cache
    /\ last.age >= cache_ttl
    /\ Len(last.net) = 1
    /\ last.net[1].resp = Timeout
    /\ ~last.out.ok
    /\ EntryFor(last.req) # None
    /\ now - EntryFor(last.req).timestamp = last.age

\* --- the life of an entry (specification SpecCache)

\* the step's network calls include a successful fetch of the key k whose
\* payload is data
FetchedKey(k, data) ==
    /\ "net" \in DOMAIN last'
    /\ \E i \in 1..Len(last'.net) :
         LET req == last'.net[i].req
         IN  /\ _get_cache_key(req.method, req.endpoint, req.data) = k
             /\ last'.net[i].resp = Ok(data)

\* C22: no step removes a key from the cache, and an entry that is there
\* changes only by a successful fetch of its own key made in that step, which
\* replaces it by the fetched payload with the time of the call, a timestamp
\* not earlier than the one replaced.
C22_EntriesOnlyOverwritten ==
    [][/\ DOMAIN cache \subseteq DOMAIN cache'
       /\ \A k \in DOMAIN cache :
            cache'[k] # cache[k] =>
               /\ FetchedKey(k, cache'[k].data)
               /\ cache'[k].timestamp = now
               /\ cache'[k].timestamp >= cache[k].timestamp]_vars

\* A stale entry was refetched and replaced by a different payload with a
\* later timestamp, while the entry of another key stayed
C22_Witness ==
    /\ last.op = "request"
    /\ last.age >= cache_ttl
    /\ last.out.ok
    /\ Len(last.net) = 1
    /\ EntryFor(last.req) = [timestamp |-> now, data |-> last.out.val]
    /\ last.out.val = None
    /\ Cardinality(DOMAIN cache) = 2

\* --- interleaved invocations (specification SpecRace)

KeyOf(req) == _get_cache_key(req.method, req.endpoint, req.data)

\* the responses processed so far, in the order they were processed
Done == IF last.op = "race" THEN last.done ELSE <<>>

\* the portal answered with success true
Successful(resp) ==
    resp.k = "json" /\ Truthy(DictGet(resp.body, "success", JBool(FALSE)).val)

\* the processed responses that were successful answers to the key k
Wrote(k) ==
    {j \in 1..Len(Done) : KeyOf(Done[j].req) = k /\ Successful(Done[j].resp)}

\* C23: with invocations interleaving on one client, in every reachable
\* state each cache entry is a whole (timestamp, payload) pair, and it is the
\* payload of the successful response to its key that was processed last; a
\* key no successful response was processed for has no entry.  While the
\* cache holds nothing every invocation went to the network itself: each
\* one that has returned made its own network call, for its own request.
C23_LastWriteWins ==
    /\ \A k \in DOMAIN cache \cup {KeyOf(Done[j].req) : j \in 1..Len(Done)} :
         IF Wrote(k) = {} THEN k \notin DOMAIN cache
         ELSE LET j == CHOOSE m \in Wrote(k) : \A o \in Wrote(k) : o <= m
              IN  /\ k \in DOMAIN cache
                  /\ DOMAIN cache[k] = {"timestamp", "data"}
                  /\ cache[k].timestamp = now
                  /\ Done[j].resp = Ok(cache[k].data)
    /\ \A i \in Invocations :
         (inflight[i].pc = "returned" /\ inflight[i].net = <<>>) =>
             cache # <<>>
    /\ \A i \in Invocations :
         (inflight[i].pc = "returned" /\ inflight[i].net # <<>>) =>
             /\ Len(inflight[i].net) = 1
             /\ \E j \in 1..Len(Done) :
                  /\ Done[j].i = i
                  /\ Done[j].req = inflight[i].net[1].req
                  /\ Done[j].resp = inflight[i].net[1].resp

\* Two invocations raced on the same request, each made its network call,
\* the portal gave them different payloads, and the entry is the payload of
\* the response processed second
C23_Witness ==
    /\ Len(Done) = 2
    /\ Done[1].i # Done[2].i
    /\ Done[1].req = Done[2].req
    /\ Done[1].resp = Ok(JObj([name |-> JStr("a")]))
    /\ Done[2].resp = Ok(JObj([name |-> JStr("b")]))
    /\ \A i \in Invocations :
         inflight[i].pc = "returned" /\ Len(inflight[i].net) = 1
    /\ cache[KeyOf(Done[1].req)].data = JObj([name |-> JStr("b")])

\* --- termination of an invocation (specification SpecRaceFair)

Waiting(i) == inflight[i].pc = "waiting"

Returned(i) == inflight[i].pc = "returned"

\* C27: an invocation of handle_call_tool whose network call completes
\* returns, and what it returned is one envelope that stays; an invocation
\* whose network call never completes stays suspended for ever, as nothing
\* in the server times it out or cancels it, and the other invocations
\* return all the same.
C27_ReturnsIfNetworkCompletes ==
    /\ \A i \in Invocations :
         (Waiting(i) /\ ~inflight[i].hung) ~> Returned(i)
    /\ [][\A i \in Invocations :
            /\ (Waiting(i) /\ inflight[i].hung) => inflight'[i] = inflight[i]
            /\ Returned(i) =>
                 /\ inflight'[i] = inflight[i]
                 /\ DOMAIN inflight[i].envelope \subseteq
                        {"success", "data", "error", "metadata"}
            /\ (Waiting(i) /\ Returned(i)') =>
                 /\ ~inflight[i].hung
                 /\ Len(inflight'[i].net) = 1
                 /\ inflight'[i].net[1].req = inflight[i].req]_vars

\* An invocation returned the portal's answer while the network call of
\* another, made before it, hangs
C27_Witness ==
    \E i, j \in Invocations :
        /\ i < j
        /\ Waiting(i) /\ inflight[i].hung
        /\ Returned(j)
        /\ Len(inflight[j].net) = 1
        /\ inflight[j].envelope.success

\* --- the kind of a failure (specification SpecErrors)

\* the rules as an ordered table: the words looked for, and the kind given
KindRules ==
    <<[words |-> {"not found"}, kind |-> "data_not_found"],
      [words |-> {"permission", "unauthorized"}, kind |-> "permission_denied"],
      [words |-> {"network", "connection"}, kind |-> "network_error"],
      [words |-> {"invalid", "parameter"}, kind |-> "invalid_parameters"]>>

\* the rules that match the text m
Matching(m) ==
    {k \in 1..Len(KindRules) : \E w \in KindRules[k].words : Contains(w, m)}

FailureEnvelope ==
    /\ last.op = "tool"
    /\ ~last.envelope.success
    /\ "error" \in DOMAIN last.envelope

\* C24: the kind of a failure envelope is the kind of the first rule, in the
\* order not found; permission or unauthorized; network or connection;
\* invalid or parameter, that matches the lower-cased message, and
\* ckan_api_error when none does: a function of the message text alone,
\* whatever the tool and whoever raised the failure.
C24_FirstMatchingRule ==
    FailureEnvelope =>
        LET hits == Matching(lower(last.envelope.error.message))
        IN  last.envelope.error.type =
               IF hits = {} THEN "ckan_api_error"
               ELSE KindRules[CHOOSE k \in hits : \A h \in hits : k <= h].kind

\* A transport error whose text matches the first and the third rule was
\* given the kind of the first
C24_Witness ==
    /\ FailureEnvelope
    /\ last.raised
    /\ last.envelope.error.message = "HTTP Error: Connection not found"
    /\ last.envelope.error.type = "data_not_found"

\* --- the query of faceted_search (specification SpecFaceted)

\* the query of the one request the search made holds the pair k=v
HasPair(k, v) ==
    Contains("&" \o k \o "=" \o quote(v) \o "&", last.net[1].req.endpoint \o "&")

\* the query holds a pair of the key k
HasKey(k) == Contains("&" \o k \o "=", last.net[1].req.endpoint)

HasEntry(d, k) == d.t = "obj" /\ k \in DOMAIN d.o

\* the filter clause the filters name, "" when there are none
FilterClause(filters) ==
    CASE filters = JObj([organization |-> JStr("x")]) -> "organization:x"
      [] filters = JObj([organization |-> JStr("x"), tags |-> JStr("t")]) ->
           "organization:x AND tags:t"
      [] OTHER -> ""

\* the range filter of a date range, with the defaults of what it leaves out
RangeFilter(d) ==
    LET Text(k, default) == IF k \in DOMAIN d.o THEN d.o[k].s ELSE default
    IN  Text("field", "metadata_created") \o ":[" \o Text("start", "*")
          \o " TO " \o Text("end", "*") \o "]"

\* the spatial part of the claim
SpatialRule ==
    LET spatial == last.args.spatial_query
    IN  /\ ~(HasKey("ext_bbox") /\ HasKey("ext_spatial"))
        /\ HasEntry(spatial, "bbox") =>
              HasPair("ext_bbox", "1,2,3,4") /\ ~HasKey("ext_spatial")
        /\ HasKey("ext_spatial") <=>
              /\ ~HasEntry(spatial, "bbox")
              /\ HasEntry(spatial, "point") /\ HasEntry(spatial, "radius")
        /\ HasKey("ext_spatial") => HasPair("ext_spatial", "5,6,7")

\* the date part of the claim, for a date range d
DateRule(d) ==
    LET clause == FilterClause(last.args.filters)
    IN  HasPair("fq", IF clause = "" THEN RangeFilter(d)
                      ELSE clause \o " AND " \o RangeFilter(d))

\* C25 as stated: the query of faceted_search never holds both ext_bbox and
\* ext_spatial, a bbox gives ext_bbox alone, ext_spatial needs point and
\* radius without bbox, and whenever a date range is given, the empty map
\* included, its range filter is appended with AND to the filter clause or
\* stands alone.
C25_SpatialModeAndDateFilter ==
    (last.op = "faceted" /\ Len(last.net) = 1) =>
        /\ SpatialRule
        /\ last.args.date_range # None => DateRule(last.args.date_range)

\* C25, amended: the same, the range filter being there whenever the date
\* range given is not empty; an empty date range adds nothing to the query,
\* which then holds the filter clause alone or no fq at all.
C25_SpatialModeAndNonEmptyDateFilter ==
    (last.op = "faceted" /\ Len(last.net) = 1) =>
        /\ SpatialRule
        /\ Truthy(last.args.date_range) => DateRule(last.args.date_range)
        /\ ~Truthy(last.args.date_range) =>
              LET clause == FilterClause(last.args.filters)
              IN  IF clause = "" THEN ~HasKey("fq") ELSE HasPair("fq", clause)

\* A search with two filters, a bbox next to point and radius, and a date
\* range that names only its start: ext_bbox alone, and the range filter
\* with its defaults after the filter clause
C25_Witness ==
    /\ last.op = "faceted"
    /\ Len(last.net) = 1
    /\ HasEntry(last.args.spatial_query, "bbox")
    /\ HasEntry(last.args.spatial_query, "point")
    /\ last.args.date_range = JObj([start |-> JStr("2020")])
    /\ HasPair("ext_bbox", "1,2,3,4")
    /\ HasPair("fq", "organization:x AND tags:t AND metadata_created:[2020 TO *]")

\* --- the sample size (specification SpecSample)

\* the responses the step's network calls met, in order
Met == [i \in 1..Len(last'.net) |-> last'.net[i].resp]

\* the outcomes a and b are the same failure, or reports with the same checks
\* and the same overall score
SameQuality(a, b) ==
    /\ a.ok = b.ok
    /\ ~a.ok => a.exc = b.exc
    /\ a.ok => /\ a.val.o.checks = b.val.o.checks
               /\ a.val.o.overall_score = b.val.o.overall_score

OptionalOnlyTools == KnownTools \ DOMAIN RequiredArgument

\* C28: a tool whose schema requires no argument, called without an argument
\* map, does what the same call with the empty map does from the same state
\* and the same portal answers: the same requests, the same outcome and the
\* same cache; and when every answer of the portal is a success its
\* envelope has success true.
C28_AbsentArgumentsAsEmpty ==
    [][(/\ last'.op = "tool" /\ last'.n # last.n
        /\ last'.initialized
        /\ last'.name \in OptionalOnlyTools
        /\ last'.arguments = None) =>
          LET empty == handle_call_tool(Ctx(cache, Met), last'.name, EmptyDict)
          IN  /\ empty.ctx.net = last'.net
              /\ empty.ctx.cache = cache'
              /\ empty.envelope.success = last'.envelope.success
              /\ (\A i \in 1..Len(last'.net) : Successful(last'.net[i].resp))
                    => last'.envelope.success]_vars

\* --- one cache for all operations (specification SpecShared)

\* The step is a tool call
ToolStep ==
    /\ last'.op = "tool"
    /\ last'.n # last.n

\* the cache holds for the request an entry younger than the TTL
ValidEntry(req) ==
    /\ KeyOf(req) \in DOMAIN cache
    /\ now - cache[KeyOf(req)].timestamp < cache_ttl

\* the operations that are more than one request passed on
DerivedTools == SharedTools \ {"ckan_package_show"}

\* no network call of the step is for a request the cache held a valid
\* entry of, whichever operation stored it; so with a valid entry of
\* package_show for X, the operations that read the dataset X make no
\* package_show call
ServedAcrossOperations ==
    ToolStep =>
        /\ \A i \in 1..Len(last'.net) : ~ValidEntry(last'.net[i].req)
        /\ (/\ last'.name \in {"ckan_data_quality_check", "ckan_dataset_analytics",
                               "ckan_related_datasets"}
            /\ ValidEntry(Request("GET", "package_show?id=X", None))) =>
              \A i \in 1..Len(last'.net) :
                  ~Contains("package_show", last'.net[i].req.endpoint)

\* the step repeats the first call made on the client, a derived operation
\* that succeeded, within the TTL of that call
RepeatsFirstRun ==
    /\ ToolStep
    /\ ops = 1
    /\ last.op = "tool"
    /\ last.name \in DerivedTools
    /\ last.envelope.success
    /\ last'.name = last.name
    /\ last'.arguments = last.arguments
    /\ now - last.at < cache_ttl

\* C29 as stated: a payload stored by one operation is served to every
\* operation that issues the same request within the TTL, so that after a
\* package_show of X the quality check, the analytics and the related
\* datasets of X make no package_show call; and the repeat of any derived
\* operation within the TTL of its first successful run makes no network
\* call at all.
C29_SharedAndRepeatFree ==
    [][/\ ServedAcrossOperations
       /\ RepeatsFirstRun => last'.net = <<>>]_vars

\* C29, amended: the same, the repeat making no network call when every
\* network call of the first run succeeded; a call that failed inside a run
\* that succeeded all the same left no entry and is made again.
C29_SharedAndRepeatFreeAfterCleanRun ==
    [][/\ ServedAcrossOperations
       /\ (/\ RepeatsFirstRun
           /\ \A i \in 1..Len(last.net) : Successful(last.net[i].resp)) =>
             last'.net = <<>>
       /\ (/\ RepeatsFirstRun
           /\ \E i \in 1..Len(last.net) : ~Successful(last.net[i].resp)) =>
             /\ Len(last'.net) = 1
             /\ \E i \in 1..Len(last.net) :
                  /\ ~Successful(last.net[i].resp)
                  /\ last.net[i].req = last'.net[1].req]_vars

\* A quality check of X made 299 seconds after a package_show of X took the
\* dataset from the cache and made no network call
C29_Witness ==
    /\ last.op = "tool"
    /\ last.name = "ckan_data_quality_check"
    /\ last.envelope.success
    /\ last.net = <<>>
    /\ last.at = cache_ttl - 1
    /\ ops = 2
    /\ DOMAIN cache = {KeyOf(Request("GET", "package_show?id=X", None))}
    /\ cache[KeyOf(Request("GET", "package_show?id=X", None))].timestamp = 0

\* --- the repeat of a degraded preview (specification SpecShared)

ShowOfR == Request("GET", "resource_show?id=R", None)

SearchOfR == Request("GET", "datastore_search?resource_id=R&limit=10", None)

\* the preview of R the last call returned is the degraded one
DegradedPreview(call) ==
    /\ call.op = "tool"
    /\ call.name = "ckan_resource_preview"
    /\ call.envelope.success
    /\ "note" \in DOMAIN call.envelope.data.o

\* the last call was a preview of R whose datastore_search failed, and the
\* step repeats it while the entry of resource_show is within its TTL
RepeatsFailedSearch ==
    /\ ToolStep
    /\ DegradedPreview(last)
    /\ \E i \in 1..Len(last.net) :
         last.net[i].req = SearchOfR /\ ~Successful(last.net[i].resp)
    /\ last'.name = last.name
    /\ last'.arguments = last.arguments
    /\ ValidEntry(ShowOfR)

====
